---------------------------- MODULE Spec2Model ----------------------------
(***************************************************************************)
(* Three-party secure recommender update (CS670 assignments A1, A2, A3).   *)
(*                                                                         *)
(* Two compute parties P0, P1 hold additive shares over Z/2^32, a dealer   *)
(* P2 hands out correlated randomness, and item selection is secret-shared *)
(* with a tree-based distributed point function (DPF).                     *)
(*                                                                         *)
(* Widths are scaled: a uint32_t word has WordBits bits, the uint64_t      *)
(* carrier 2*WordBits bits, so that Field::MODULUS = 2^WordBits and every   *)
(* wrap-around of the 64-bit carrier is kept (% Carrier).  The AES-128-CTR *)
(* keystream is a table-driven deterministic function of (key, nonce,      *)
(* word index), one of NumPrg instances picked by prgId.                   *)
(***************************************************************************)
EXTENDS Integers, Sequences, FiniteSets, TLC

(***************************************************************************)
(* Bounds of the model.                                                    *)
(***************************************************************************)
WordBits == 3        \* width of a uint32_t word in the model
MaxDepth == 2        \* largest DPF tree depth explored (domain 2^MaxDepth)
NumPrg == 2          \* number of keystream instances standing in for AES
MaxDim == 2          \* largest dot-product dimension explored

Pow2(n) == 2 ^ n

MODULUS == Pow2(WordBits)
Carrier == Pow2(2 * WordBits)

Word32 == 0 .. (MODULUS - 1)
Word64 == 0 .. (Carrier - 1)
Bit == {0, 1}

(***************************************************************************)
(* Bitwise helpers on naturals (C++ ^ and &).                              *)
(***************************************************************************)
RECURSIVE BitXor(_, _)
BitXor(a, b) ==
    IF a = 0 THEN b
    ELSE IF b = 0 THEN a
    ELSE 2 * BitXor(a \div 2, b \div 2) + ((a + b) % 2)

RECURSIVE BitAnd(_, _)
BitAnd(a, b) ==
    IF a = 0 \/ b = 0 THEN 0
    ELSE 2 * BitAnd(a \div 2, b \div 2) + ((a % 2) * (b % 2))

(***************************************************************************)
(* Field arithmetic, A3/common.hpp.  Operands are uint64_t carriers; each   *)
(* intermediate wraps at the carrier width before % MODULUS.               *)
(***************************************************************************)
\* Mutation of FieldAdd: the sum saturates at MODULUS - 1.
FieldAddSaturating(a, b) == IF a + b >= MODULUS THEN MODULUS - 1 ELSE a + b

FieldAdd(a, b) == ((a + b) % Carrier) % MODULUS

FieldSub(a, b) == ((a + MODULUS - (b % MODULUS)) % Carrier) % MODULUS

\* Mutation of FieldMul: the product is not reduced to the field.
FieldMulNoNormalise(a, b) == (a * b) % Carrier

FieldMul(a, b) == ((a * b) % Carrier) % MODULUS

\* Field::sub of A1/shares.hpp: the unsigned difference wraps at the carrier
\* width before % MODULUS (add and mul are those of A3).
A1FieldSub(a, b) == ((a - b) % Carrier) % MODULUS

\* int64_t values are kept as mathematical integers in
\* [-Carrier/2, Carrier/2); WrapSigned is the two's-complement reduction.
WrapSigned(x) ==
    LET u == x % Carrier
    IN  IF u >= Carrier \div 2 THEN u - Carrier ELSE u

from_signed(x) == (x % Carrier) % MODULUS

\* Mutation of to_signed: the low word is not sign-extended.
ToSignedNoSignExtension(v) == v % MODULUS

to_signed(v) ==
    LET u == v % MODULUS
    IN  IF u >= MODULUS \div 2 THEN u - MODULUS ELSE u

(***************************************************************************)
(* PRG, A3/dpf.hpp.  A Seed256 is one word; its two low bits are the       *)
(* control bits.                                                           *)
(***************************************************************************)
DOMAIN_SL == 1
DOMAIN_SR == 2
DOMAIN_T == 3
DOMAIN_OUT == 4

KeyStreamTable ==
    << 180, 98, 211, 69, 193, 204, 132, 137, 221, 3, 24, 57, 72, 10, 214, 193,
       75, 79, 157, 146, 157, 164, 208, 81, 21, 206, 199, 204, 208, 217, 17,
       194, 43, 30, 227, 102, 143, 142, 146, 188, 185, 137, 36, 245, 199, 28,
       206, 144, 237, 236, 181, 93, 88, 229, 63, 220, 135, 39, 140, 108, 148,
       184, 223, 68 >>

seed_xor(a, b) == BitXor(a, b)

\* Mutation of clear_lsbs: only the lowest bit is cleared.
ClearLsbsLowestOnly(s) == s - (s % 2)

clear_lsbs(s) == s - (s % 4)

\* Mutation of make_nonce: the domain constant is left out.
MakeNonceNoDomain(seed, domainConst) == seed

\* make_nonce: the nonce is the seed's nonce words with the domain constant
\* XORed into the first of them.
make_nonce(seed, domainConst) == BitXor(seed, domainConst)

\* aes_ctr_words: word i of the keystream of instance id under the key and
\* nonce derived from the seed.
aes_ctr_word(id, key, nonce, i) ==
    LET k1 == KeyStreamTable[((key * 7 + id * 13 + 1) % 64) + 1]
        k2 == KeyStreamTable[((k1 + nonce * 19 + i * 5) % 64) + 1]
    IN  k2 % MODULUS

prg_expand(id, in) ==
    LET seed == clear_lsbs(in)
        wL == aes_ctr_word(id, seed, make_nonce(seed, DOMAIN_SL), 0)
        wR == aes_ctr_word(id, seed, make_nonce(seed, DOMAIN_SR), 0)
        wT0 == aes_ctr_word(id, seed, make_nonce(seed, DOMAIN_T), 0)
        wT1 == aes_ctr_word(id, seed, make_nonce(seed, DOMAIN_T), 1)
    IN  [sL |-> clear_lsbs(wL), tL |-> wT0 % 2,
         sR |-> clear_lsbs(wR), tR |-> wT1 % 2]

prg_leaf(id, seed) ==
    LET w0 == aes_ctr_word(id, seed, make_nonce(seed, DOMAIN_OUT), 0)
        w1 == aes_ctr_word(id, seed, make_nonce(seed, DOMAIN_OUT), 1)
    IN  w0 + w1 * MODULUS

(***************************************************************************)
(* DPF engine, A3/dpf.hpp.                                                 *)
(***************************************************************************)
is_power_of_two(x) == x # 0 /\ BitAnd(x, x - 1) = 0

RECURSIVE ilog2_from(_, _)
ilog2_from(d, n) == IF Pow2(d) < n THEN ilog2_from(d + 1, n) ELSE d

ilog2_size(n) == ilog2_from(0, n)

get_bit(index, depth, level) == (index \div Pow2(depth - 1 - level)) % 2

\* Mutation of GenLevel: the left bit correction is not complemented.
GenLevelNoComplement(id, st, location, depth, level) ==
    LET e0 == prg_expand(id, st.cur0)
        e1 == prg_expand(id, st.cur1)
        bit == get_bit(location, depth, level)
        keep == bit
        lose == 1 - keep
        cwtL == BitXor(BitXor(e0.tL, e1.tL), bit)
        cwtR == BitXor(BitXor(e0.tR, e1.tR), bit)
        corr == IF lose = 0 THEN seed_xor(e0.sL, e1.sL) ELSE seed_xor(e0.sR, e1.sR)
        c0 == IF keep = 0 THEN e0.sL ELSE e0.sR
        tchild0 == IF keep = 0 THEN e0.tL ELSE e0.tR
        child0 == IF st.tau0 = 0 THEN seed_xor(c0, corr) ELSE c0
        c1 == IF keep = 0 THEN e1.sL ELSE e1.sR
        tchild1 == IF keep = 0 THEN e1.tL ELSE e1.tR
        child1 == IF st.tau1 = 0 THEN seed_xor(c1, corr) ELSE c1
        cwk == IF keep = 0 THEN cwtL ELSE cwtR
    IN  [cur0 |-> child0,
         tau0 |-> BitXor(tchild0, BitAnd(st.tau0, cwk)),
         cur1 |-> child1,
         tau1 |-> BitXor(tchild1, BitAnd(st.tau1, cwk)),
         cw_seed |-> Append(st.cw_seed, corr),
         cw_tL |-> Append(st.cw_tL, cwtL),
         cw_tR |-> Append(st.cw_tR, cwtR)]

\* One iteration of generate's level loop: st holds cur0, tau0, cur1, tau1
\* and the correction words so far.
GenLevel(id, st, location, depth, level) ==
    LET e0 == prg_expand(id, st.cur0)
        e1 == prg_expand(id, st.cur1)
        bit == get_bit(location, depth, level)
        keep == bit
        lose == 1 - keep
        cwtL == BitXor(BitXor(BitXor(e0.tL, e1.tL), bit), 1)
        cwtR == BitXor(BitXor(e0.tR, e1.tR), bit)
        corr == IF lose = 0 THEN seed_xor(e0.sL, e1.sL) ELSE seed_xor(e0.sR, e1.sR)
        c0 == IF keep = 0 THEN e0.sL ELSE e0.sR
        tchild0 == IF keep = 0 THEN e0.tL ELSE e0.tR
        child0 == IF st.tau0 = 0 THEN seed_xor(c0, corr) ELSE c0
        c1 == IF keep = 0 THEN e1.sL ELSE e1.sR
        tchild1 == IF keep = 0 THEN e1.tL ELSE e1.tR
        child1 == IF st.tau1 = 0 THEN seed_xor(c1, corr) ELSE c1
        cwk == IF keep = 0 THEN cwtL ELSE cwtR
    IN  [cur0 |-> child0,
         tau0 |-> BitXor(tchild0, BitAnd(st.tau0, cwk)),
         cur1 |-> child1,
         tau1 |-> BitXor(tchild1, BitAnd(st.tau1, cwk)),
         cw_seed |-> Append(st.cw_seed, corr),
         cw_tL |-> Append(st.cw_tL, cwtL),
         cw_tR |-> Append(st.cw_tR, cwtR)]

RECURSIVE GenLoop(_, _, _, _, _)
GenLoop(id, st, location, depth, level) ==
    IF level < depth
    THEN GenLoop(id, GenLevel(id, st, location, depth, level), location, depth, level + 1)
    ELSE st

\* Mutation of MakeKey: the output correction is folded with the key's own
\* root control bit.
MakeKeyOwnOutput(rootSeed, rootT, st, cw_out, size, depth) ==
    [rootSeed |-> rootSeed, rootT |-> rootT, cw_seed |-> st.cw_seed,
     cw_tL |-> st.cw_tL, cw_tR |-> st.cw_tR, cw_out |-> BitXor(cw_out, rootT),
     size |-> size, depth |-> depth]

MakeKey(rootSeed, rootT, st, cw_out, size, depth) ==
    [rootSeed |-> rootSeed, rootT |-> rootT, cw_seed |-> st.cw_seed,
     cw_tL |-> st.cw_tL, cw_tR |-> st.cw_tR, cw_out |-> cw_out,
     size |-> size, depth |-> depth]

\* generate(size, location, value, rng): s0 and s1 are the two root seeds
\* the rng yields.  Defined for a power-of-two size and location < size.
generate(id, size, location, value, s0, s1) ==
    LET depth == ilog2_size(size)
        t0 == s0 % 2
        t1 == BitXor(t0, 1)
        st == GenLoop(id,
                      [cur0 |-> s0, tau0 |-> t0, cur1 |-> s1, tau1 |-> t1,
                       cw_seed |-> <<>>, cw_tL |-> <<>>, cw_tR |-> <<>>],
                      location, depth, 0)
        cw_out == BitXor(BitXor(value, prg_leaf(id, st.cur0)), prg_leaf(id, st.cur1))
    IN  [k0 |-> MakeKey(s0, t0, st, cw_out, size, depth),
         k1 |-> MakeKey(s1, t1, st, cw_out, size, depth)]

\* Mutation of EvalLevel: the control-bit correction word is not applied.
EvalLevelNoBitCorrection(id, key, index, st, level) ==
    LET e == prg_expand(id, st.s)
        bit == get_bit(index, key.depth, level)
        c == IF bit = 1 THEN e.sR ELSE e.sL
        tau == IF bit = 1 THEN e.tR ELSE e.tL
        child == IF st.t = 0 THEN seed_xor(c, key.cw_seed[level + 1]) ELSE c
    IN  [s |-> child, t |-> tau]

\* One iteration of eval's level loop on the state [s, t].
EvalLevel(id, key, index, st, level) ==
    LET e == prg_expand(id, st.s)
        bit == get_bit(index, key.depth, level)
        c == IF bit = 1 THEN e.sR ELSE e.sL
        tau == IF bit = 1 THEN e.tR ELSE e.tL
        cwt == IF bit = 1 THEN key.cw_tR[level + 1] ELSE key.cw_tL[level + 1]
        next_t == BitXor(tau, BitAnd(st.t, cwt))
        child == IF st.t = 0 THEN seed_xor(c, key.cw_seed[level + 1]) ELSE c
    IN  [s |-> child, t |-> next_t]

RECURSIVE EvalLoop(_, _, _, _, _)
EvalLoop(id, key, index, st, level) ==
    IF level < key.depth
    THEN EvalLoop(id, key, index, EvalLevel(id, key, index, st, level), level + 1)
    ELSE st

\* eval(key, index), defined for index < key.size.
eval(id, key, index) ==
    LET st == EvalLoop(id, key, index, [s |-> key.rootSeed, t |-> key.rootT], 0)
        y == prg_leaf(id, st.s)
    IN  IF st.t = 1 THEN BitXor(y, key.cw_out) ELSE y

eval_full(id, key) == [i \in 1 .. key.size |-> eval(id, key, i - 1)]


(***************************************************************************)
(* Dealer randomness, A3/common.hpp Field::small_random: the n-th draw of  *)
(* the generator seeded with seed, uniform over 1..SmallRandomMax.         *)
(***************************************************************************)
SmallRandomMax == 5

small_random(seed, n) ==
    1 + (KeyStreamTable[((seed * 11 + n * 7 + 5) % 64) + 1] % SmallRandomMax)

(***************************************************************************)
(* Vector helpers.                                                         *)
(***************************************************************************)
RECURSIVE DotFrom(_, _, _)
DotFrom(x, y, i) ==
    IF i > Len(x) THEN 0
    ELSE FieldAdd(FieldMul(x[i], y[i]), DotFrom(x, y, i + 1))

\* <x, y> over the field (plaintext reference, also the dealer's loops).
Dot(x, y) == DotFrom(x, y, 1)

VecAdd(x, y) == [i \in 1 .. Len(x) |-> FieldAdd(x[i], y[i])]

Other(p) == 1 - p

Party == {0, 1}

(***************************************************************************)
(* secure_dot_product, A3/common.hpp: the local computations.              *)
(***************************************************************************)
\* Mutation of MaskedOut: one more element follows masked_b.
MaskedOutTrailing(a, b, X, Y) ==
    [i \in 1 .. (2 * Len(a) + 1) |->
        IF i <= Len(a) THEN FieldAdd(a[i], X[i])
        ELSE IF i <= 2 * Len(a) THEN FieldAdd(b[i - Len(a)], Y[i - Len(a)])
        ELSE 0]

\* Mutation of MaskedOut: masked_b is written before masked_a.
MaskedOutBFirst(a, b, X, Y) ==
    [i \in 1 .. (2 * Len(a)) |->
        IF i <= Len(a) THEN FieldAdd(b[i], Y[i])
        ELSE FieldAdd(a[i - Len(a)], X[i - Len(a)])]

\* masked_a followed by masked_b, the order of the two send_vector calls.
MaskedOut(a, b, X, Y) ==
    [i \in 1 .. (2 * Len(a)) |->
        IF i <= Len(a) THEN FieldAdd(a[i], X[i])
        ELSE FieldAdd(b[i - Len(a)], Y[i - Len(a)])]

\* Mutation of SubStep: the cross term is added instead of subtracted.
SubStepAdded(local, y, pa) == FieldAdd(local, FieldMul(y, pa))

SubStep(local, y, pa) == FieldSub(local, FieldMul(y, pa))

\* Mutation of MulStep: the peer's masked b is left out.
MulStepOwnOnly(local, ai, bi, pbi) == FieldAdd(local, FieldMul(ai, bi))

MulStep(local, ai, bi, pbi) == FieldAdd(local, FieldMul(ai, FieldAdd(bi, pbi)))

RECURSIVE MulLoop(_, _, _, _, _)
MulLoop(local, a, b, pb, i) ==
    IF i > Len(a) THEN local
    ELSE MulLoop(MulStep(local, a[i], b[i], pb[i]), a, b, pb, i + 1)

RECURSIVE SubLoop(_, _, _, _)
SubLoop(local, Y, pa, i) ==
    IF i > Len(Y) THEN local
    ELSE SubLoop(SubStep(local, Y[i], pa[i]), Y, pa, i + 1)

\* local_result after the peer's masked vectors pin = pa \o pb arrived.
DotLocal(a, b, Y, corr, pin) ==
    LET k == Len(a)
        pa == SubSeq(pin, 1, k)
        pb == SubSeq(pin, k + 1, 2 * k)
    IN  FieldAdd(SubLoop(MulLoop(0, a, b, pb, 1), Y, pa, 1), corr)

(***************************************************************************)
(* State.                                                                  *)
(***************************************************************************)
VARIABLES
    dpf,        \* the function self-tests: inputs, generated key pair, outputs so far
    files,      \* files[p]: party p's input files: U and V shares, query list
    config,     \* ProgramConfig: num_users, num_items (and the AES instance)
    U,          \* U[p]: party p's share of the user factors
    V,          \* V[p]: party p's share of the item factors
    queries,    \* queries[p]: party p's loaded query list
    saved,      \* saved[p]: the V*_shares_updated file of party p
    party,      \* party[p]: position and locals of compute party p's coroutine
    peerChan,   \* peerChan[p]: values in flight on the peer socket towards p
    toP2,       \* toP2[p]: values in flight from party p to the dealer
    fromP2,     \* fromP2[p]: values in flight from the dealer to party p
    pending_by_dim, \* dealer: dimension -> queue of pending bundle ids
    bundles,    \* dealer: every bundle created so far, by id (shared_ptr heap)
    handler,    \* handler[p]: position and locals of the dealer's handle_client for p
    rng,        \* dealer: seed and draw count of small_random's generator
    exit        \* exit[n]: whether process n (P0, P1, P2) returned from main, and its status

chanVars == <<peerChan, toP2, fromP2>>
dataVars == <<files, config, U, V, queries, saved>>
dealerVars == <<pending_by_dim, bundles, handler, rng>>
vars == <<dpf, files, config, U, V, queries, saved, party, peerChan, toP2, fromP2,
          pending_by_dim, bundles, handler, rng, exit>>

NoKeys == [k0 |-> <<>>, k1 |-> <<>>]

\* The processes: the compute parties P0 and P1, and the dealer P2 as 2.
Process == {0, 1, 2}

Running == [ended |-> FALSE, status |-> 0]

NoExit == [n \in Process |-> Running]

NoDpf == [pc |-> "off", id |-> 0, size |-> 0, location |-> 0, value |-> 0,
          s0 |-> 0, s1 |-> 0, keys |-> NoKeys, out0 |-> <<>>, out1 |-> <<>>]

\* Locals of a compute party's coroutine (run and the call it is inside).
IdleParty ==
    [pc |-> "off", phase |-> "none", q |-> 0, user_idx |-> 0, ui |-> 0,
     xor |-> <<>>, temp |-> <<>>, sum_local |-> 0, sum_peer |-> 0, total |-> 0, ind |-> <<>>,
     vj |-> 0, dot |-> 0, delta |-> 0, M |-> 0, i |-> 0,
     a |-> <<>>, b |-> <<>>, corr |-> 0, X |-> <<>>, Y |-> <<>>, idx |-> 0,
     pin |-> <<>>, result |-> 0, reqs |-> <<>>, got |-> <<>>, err |-> FALSE]

IdleHandler == [pc |-> "off", bundle |-> 0, dim |-> 0, idx |-> 0, log |-> <<>>]

EmptyChans == [p \in Party |-> <<>>]

NotSaved == [written |-> FALSE, shares |-> <<>>]

NoData ==
    /\ files = [p \in Party |-> [U |-> <<>>, V |-> <<>>, queries |-> <<>>]]
    /\ config = [num_users |-> 0, num_items |-> 0, prg |-> 0]
    /\ U = EmptyChans
    /\ V = EmptyChans
    /\ queries = EmptyChans
    /\ saved = [p \in Party |-> NotSaved]

NoDealer ==
    /\ pending_by_dim = <<>>
    /\ bundles = <<>>
    /\ handler = [p \in Party |-> IdleHandler]
    /\ rng = [seed |-> 0, pos |-> 0]

NoParties ==
    /\ party = [p \in Party |-> IdleParty]
    /\ peerChan = EmptyChans
    /\ toP2 = EmptyChans
    /\ fromP2 = EmptyChans

(***************************************************************************)
(* DPF self-test (A2 gen_queries main / EvalFull_, A3 generate + eval_full):*)
(* generate a key pair for (size, location, value), then evaluate both     *)
(* keys index by index.                                                    *)
(***************************************************************************)
DpfSizes == {Pow2(d) : d \in 0 .. MaxDepth}

DpfValues == {0, 1, Carrier - 1}

DpfInit ==
    /\ \E id \in 0 .. (NumPrg - 1), size \in DpfSizes, value \in DpfValues,
       s0 \in Word32, s1 \in Word32 :
         \E location \in 0 .. (size - 1) :
            dpf = [pc |-> "generate", id |-> id, size |-> size,
                   location |-> location, value |-> value, s0 |-> s0, s1 |-> s1,
                   keys |-> NoKeys, out0 |-> <<>>, out1 |-> <<>>]
    /\ exit = NoExit
    /\ NoParties
    /\ NoData
    /\ NoDealer

DpfGenerate ==
    /\ dpf.pc = "generate"
    /\ is_power_of_two(dpf.size)
    /\ dpf.location < dpf.size
    /\ dpf' = [dpf EXCEPT
                 !.keys = generate(dpf.id, dpf.size, dpf.location, dpf.value,
                                   dpf.s0, dpf.s1),
                 !.pc = "eval"]
    /\ UNCHANGED <<exit, party, chanVars, dataVars, dealerVars>>

\* One iteration of the evaluation loop: both keys at the next index.
DpfEvalNext ==
    /\ dpf.pc = "eval"
    /\ LET i == Len(dpf.out0)
       IN  IF i < dpf.keys.k0.size
           THEN dpf' = [dpf EXCEPT
                          !.out0 = Append(@, eval(dpf.id, dpf.keys.k0, i)),
                          !.out1 = Append(@, eval(dpf.id, dpf.keys.k1, i))]
           ELSE dpf' = [dpf EXCEPT !.pc = "done"]
    /\ UNCHANGED <<exit, party, chanVars, dataVars, dealerVars>>

DpfNext == DpfGenerate \/ DpfEvalNext

SpecDPF == DpfInit /\ [][DpfNext]_vars

(***************************************************************************)
(* C1: for every power-of-two size, location < size, value, root seeds and *)
(* keystream instance, the outputs of the two keys XOR to value at         *)
(* location and to 0 at every other index.                                 *)
(***************************************************************************)
C1_DpfCorrect ==
    \A i \in 1 .. Len(dpf.out0) :
        BitXor(dpf.out0[i], dpf.out1[i])
            = (IF i - 1 = dpf.location THEN dpf.value ELSE 0)

\* A full domain of the largest depth has been evaluated, with a non-zero
\* value off the first index, and the two outputs there differ from value.
C1_Witness ==
    /\ dpf.pc = "done"
    /\ dpf.size = Pow2(MaxDepth)
    /\ dpf.location = dpf.size - 2
    /\ dpf.value = Carrier - 1
    /\ Len(dpf.out0) = dpf.size
    /\ dpf.out0[dpf.location + 1] # dpf.value
    /\ dpf.out0[1] # 0


(***************************************************************************)
(* Compute party: secure_dot_product and request_preprocessing,            *)
(* A3/common.hpp.  Each action is one network operation of the coroutine   *)
(* together with the local code around it.                                 *)
(***************************************************************************)
\* Mutation of Throw: the exception is caught around the query loop and run
\* goes on to its save.
ThrowLeavesLoop(pr) == [pr EXCEPT !.pc = "save"]

\* An exception leaving run: no handler catches it, the coroutine ends where
\* it stands and the code after the throwing call is not executed.
Throw(pr) == [pr EXCEPT !.pc = "failed"]

\* A3/server.cpp main: co_spawn(io, run(io), detached) drops the exception
\* of the coroutine, io.run() returns and main returns 0, whether or not run
\* threw.
server_main(threw) == 0

\* exit once run of party p ended and main returned.
RunEnded(p, threw) ==
    [exit EXCEPT ![p] = [ended |-> TRUE, status |-> server_main(threw)]]

\* Mutation of StartDot: the vectors are padded with a zero entry when the
\* last entry of b is odd.
StartDotPaddedOnOdd(pr, phase, a, b) ==
    LET pad == b[Len(b)] % 2 = 1
    IN  [pr EXCEPT !.pc = "sdp_req", !.phase = phase,
                   !.a = IF pad THEN Append(a, 0) ELSE a,
                   !.b = IF pad THEN Append(b, 0) ELSE b,
                   !.corr = 0, !.X = <<>>, !.Y = <<>>, !.idx = 0, !.pin = <<>>]

\* Mutation of StartDot: both vectors are padded with a zero entry.
StartDotPadded(pr, phase, a, b) ==
    [pr EXCEPT !.pc = "sdp_req", !.phase = phase, !.a = Append(a, 0),
               !.b = Append(b, 0), !.corr = 0, !.X = <<>>, !.Y = <<>>, !.idx = 0,
               !.pin = <<>>]

\* Entry of secure_dot_product(a, b) called from the place named by phase.
StartDot(pr, phase, a, b) ==
    [pr EXCEPT !.pc = "sdp_req", !.phase = phase, !.a = a, !.b = b,
               !.corr = 0, !.X = <<>>, !.Y = <<>>, !.idx = 0, !.pin = <<>>]

\* Mutation of DeltaShare: both parties subtract from 1.
DeltaShareBothFromOne(p, dot) == FieldSub(1, dot)

\* delta_share: P0 holds 1 - dot_share, P1 holds 0 - dot_share.
DeltaShare(p, dot) == IF p = 0 THEN FieldSub(1, dot) ELSE FieldSub(0, dot)

\* The caller's code after secure_dot_product returned res, up to its next
\* network operation (A3/server.cpp run, query loop).
AfterDot(p, pr, res) ==
    CASE pr.phase = "vj" ->
            StartDot([pr EXCEPT !.vj = res], "dot", <<pr.ui>>, <<res>>)
      [] pr.phase = "dot" ->
            LET delta == DeltaShare(p, res)
            IN  StartDot([pr EXCEPT !.dot = res, !.delta = delta], "M",
                         <<pr.ui>>, <<delta>>)
      [] pr.phase = "M" ->
            StartDot([pr EXCEPT !.M = res, !.i = 0], "upd", <<pr.ind[1]>>, <<res>>)
      [] pr.phase = "upd" ->
            IF pr.i + 1 < config.num_items
            THEN StartDot([pr EXCEPT !.i = pr.i + 1], "upd",
                          <<pr.ind[pr.i + 2]>>, <<pr.M>>)
            ELSE [IdleParty EXCEPT !.pc = "loop", !.q = pr.q + 1]
      [] OTHER -> [pr EXCEPT !.pc = "done", !.result = res]

\* Mutation of SdpRequest: the dimension is sent to P2 before the sizes are
\* compared.
SdpRequestSendsFirst(p) ==
    /\ party[p].pc = "sdp_req"
    /\ toP2' = [toP2 EXCEPT ![p] = Append(@, Len(party[p].a))]
    /\ IF Len(party[p].a) # Len(party[p].b)
       THEN /\ party' = [party EXCEPT ![p] = Throw(party[p])]
            /\ exit' = RunEnded(p, TRUE)
       ELSE /\ party' = [party EXCEPT ![p].pc = "sdp_prep", ![p].idx = 0]
            /\ UNCHANGED exit
    /\ UNCHANGED <<dpf, dataVars, dealerVars, peerChan, fromP2>>

\* request_preprocessing: send_field(dim).  A dimension mismatch throws
\* before anything is sent and ends the coroutine.
SdpRequest(p) ==
    /\ party[p].pc = "sdp_req"
    /\ IF Len(party[p].a) # Len(party[p].b)
       THEN /\ party' = [party EXCEPT ![p] = Throw(party[p])]
            /\ exit' = RunEnded(p, TRUE)
            /\ UNCHANGED toP2
       ELSE /\ toP2' = [toP2 EXCEPT ![p] = Append(@, Len(party[p].a))]
            /\ party' = [party EXCEPT ![p].pc = "sdp_prep", ![p].idx = 0]
            /\ UNCHANGED exit
    /\ UNCHANGED <<dpf, dataVars, dealerVars, peerChan, fromP2>>

\* The prep a party holds once field number idx of the response arrived:
\* correction_term, then X, then Y.
PrepStore(pr, v) ==
    LET k == Len(pr.a)
    IN  IF pr.idx = 0 THEN [pr EXCEPT !.corr = v, !.idx = 1]
        ELSE IF pr.idx <= k THEN [pr EXCEPT !.X = Append(@, v), !.idx = pr.idx + 1]
        ELSE [pr EXCEPT !.Y = Append(@, v), !.idx = pr.idx + 1]

\* request_preprocessing: recv_field / recv_vector, one field element.
SdpRecvPrep(p) ==
    /\ party[p].pc = "sdp_prep"
    /\ fromP2[p] # <<>>
    /\ fromP2' = [fromP2 EXCEPT ![p] = Tail(@)]
    /\ LET pr == PrepStore(party[p], Head(fromP2[p]))
           k == Len(pr.a)
       IN  IF pr.idx <= 2 * k
           THEN party' = [party EXCEPT ![p] = pr]
           ELSE IF pr.phase = "prep"
           THEN LET rec == [dim |-> k, corr |-> pr.corr, X |-> pr.X, Y |-> pr.Y]
                    left == Tail(pr.reqs)
                    nxt == [IdleParty EXCEPT !.phase = "prep", !.reqs = left,
                                             !.got = Append(pr.got, rec)]
                IN  party' = [party EXCEPT ![p] =
                        IF left = <<>> THEN [nxt EXCEPT !.pc = "done"]
                        ELSE [nxt EXCEPT !.pc = "sdp_req",
                                         !.a = [j \in 1 .. Head(left) |-> 0],
                                         !.b = [j \in 1 .. Head(left) |-> 0]]]
           ELSE party' = [party EXCEPT ![p] = [pr EXCEPT !.pc = "sdp_send", !.idx = 0]]
    /\ UNCHANGED <<dpf, exit, dataVars, dealerVars, peerChan, toP2>>

\* send_vector(masked_a); send_vector(masked_b): one field element.
SdpSend(p) ==
    /\ party[p].pc = "sdp_send"
    /\ LET pr == party[p]
           out == MaskedOut(pr.a, pr.b, pr.X, pr.Y)
       IN  /\ peerChan' = [peerChan EXCEPT ![Other(p)] = Append(@, out[pr.idx + 1])]
           /\ party' = [party EXCEPT ![p] =
                 IF pr.idx + 1 < Len(out) THEN [pr EXCEPT !.idx = pr.idx + 1]
                 ELSE [pr EXCEPT !.pc = "sdp_recv", !.idx = 0]]
    /\ UNCHANGED <<dpf, exit, dataVars, dealerVars, toP2, fromP2>>

\* recv_vector(peer_masked_a); recv_vector(peer_masked_b): one field element;
\* after the last one the local result and the caller's next code.
SdpRecv(p) ==
    /\ party[p].pc = "sdp_recv"
    /\ peerChan[p] # <<>>
    /\ peerChan' = [peerChan EXCEPT ![p] = Tail(@)]
    /\ LET pr == [party[p] EXCEPT !.pin = Append(@, Head(peerChan[p]))]
       IN  IF Len(pr.pin) < 2 * Len(pr.a)
           THEN /\ party' = [party EXCEPT ![p] = pr]
                /\ V' = V
           ELSE LET res == DotLocal(pr.a, pr.b, pr.Y, pr.corr, pr.pin)
                IN  /\ party' = [party EXCEPT ![p] = AfterDot(p, pr, res)]
                    /\ V' = IF pr.phase = "upd"
                            THEN [V EXCEPT ![p][pr.i + 1] = FieldAdd(@, res)]
                            ELSE V
    /\ UNCHANGED <<dpf, exit, files, config, U, queries, saved, dealerVars, toP2, fromP2>>

(***************************************************************************)
(* Dealer P2, A3/p2.cpp: generate_bundle and the two handle_client         *)
(* coroutines.  Bundles live on a heap indexed by creation order; a queue  *)
(* holds the indices (the shared_ptr values).                              *)
(***************************************************************************)
\* The draws of one generate_bundle call starting at draw number pos:
\* alpha first, then X0[i], X1[i], Y0[i], Y1[i] for each i.
generate_bundle(seed, pos, dimension) ==
    [dim |-> dimension,
     alpha |-> small_random(seed, pos),
     X0 |-> [i \in 1 .. dimension |-> small_random(seed, pos + 4 * (i - 1) + 1)],
     X1 |-> [i \in 1 .. dimension |-> small_random(seed, pos + 4 * (i - 1) + 2)],
     Y0 |-> [i \in 1 .. dimension |-> small_random(seed, pos + 4 * (i - 1) + 3)],
     Y1 |-> [i \in 1 .. dimension |-> small_random(seed, pos + 4 * (i - 1) + 4)],
     served_p0 |-> FALSE, served_p1 |-> FALSE]

\* Mutation of FrontWaitsFor: a bundle is created for every request.
FrontWaitsForNever(queue, p) == FALSE

\* Mutation of FrontWaitsFor: any front bundle is taken.
FrontWaitsForAny(queue, p) == queue # <<>>

\* The branch condition of handle_client: the front bundle waits for p.
FrontWaitsFor(queue, p) ==
    /\ queue # <<>>
    /\ IF p = 0
       THEN bundles[Head(queue)].served_p1 /\ ~bundles[Head(queue)].served_p0
       ELSE bundles[Head(queue)].served_p0 /\ ~bundles[Head(queue)].served_p1

MarkServed(b, p) ==
    IF p = 0 THEN [b EXCEPT !.served_p0 = TRUE] ELSE [b EXCEPT !.served_p1 = TRUE]

\* Mutation of Correction: alpha is added in both branches.
CorrectionAlphaAdded(b, p) ==
    IF p = 0 THEN FieldAdd(Dot(b.X0, b.Y1), b.alpha)
    ELSE FieldAdd(Dot(b.X1, b.Y0), b.alpha)

\* corr as handle_client computes it for the is_p0 / not is_p0 branch.
Correction(b, p) ==
    IF p = 0 THEN FieldAdd(Dot(b.X0, b.Y1), b.alpha)
    ELSE FieldSub(Dot(b.X1, b.Y0), b.alpha)

\* Mutation of ViewMsg: send_vector(Y_p) is left out.
ViewMsgWithoutY(b, p) ==
    IF p = 0 THEN <<Correction(b, 0)>> \o b.X0 ELSE <<Correction(b, 1)>> \o b.X1

\* Mutation of ViewMsg: the Y vector is written before the X vector.
ViewMsgYFirst(b, p) ==
    IF p = 0 THEN <<Correction(b, 0)>> \o b.Y0 \o b.X0
    ELSE <<Correction(b, 1)>> \o b.Y1 \o b.X1

\* The field elements handle_client writes for bundle b, in write order:
\* send_field(corr); send_vector(X_p); send_vector(Y_p).
ViewMsg(b, p) ==
    IF p = 0 THEN <<Correction(b, 0)>> \o b.X0 \o b.Y0
    ELSE <<Correction(b, 1)>> \o b.X1 \o b.Y1

\* Mutation of PopServed: the front is popped whichever bundle it is.
PopServedAnyFront(queue, id) ==
    IF queue # <<>> THEN Tail(queue) ELSE queue

\* Mutation of PopServed: the queue is left as it is.
PopServedNever(queue, id) == queue

\* if (!queue.empty() && queue.front() == bundle) queue.pop_front();
PopServed(queue, id) ==
    IF queue # <<>> /\ Head(queue) = id THEN Tail(queue) ELSE queue

\* recv_field(dim) completes; the queue decision; corr; send_field(corr).
HandleRequest(p) ==
    /\ handler[p].pc = "read"
    /\ toP2[p] # <<>>
    /\ toP2' = [toP2 EXCEPT ![p] = Tail(@)]
    /\ LET dim == Head(toP2[p])
           queue == pending_by_dim[dim]
           reuse == FrontWaitsFor(queue, p)
           id == IF reuse THEN Head(queue) ELSE Len(bundles) + 1
           b == MarkServed(IF reuse THEN bundles[id]
                           ELSE generate_bundle(rng.seed, rng.pos, dim), p)
       IN  /\ bundles' = IF reuse THEN [bundles EXCEPT ![id] = b]
                         ELSE Append(bundles, b)
           /\ pending_by_dim' = IF reuse THEN pending_by_dim
                                ELSE [pending_by_dim EXCEPT ![dim] = Append(@, id)]
           /\ rng' = IF reuse THEN rng ELSE [rng EXCEPT !.pos = @ + 1 + 4 * dim]
           /\ fromP2' = [fromP2 EXCEPT ![p] = Append(@, ViewMsg(b, p)[1])]
           /\ handler' = [handler EXCEPT ![p] =
                 [pc |-> "send", bundle |-> id, dim |-> dim, idx |-> 1,
                  log |-> Append(handler[p].log, id)]]
    /\ UNCHANGED <<dpf, exit, dataVars, party, peerChan>>

\* One send_field of send_vector(X_p) / send_vector(Y_p).
HandleSend(p) ==
    /\ handler[p].pc = "send"
    /\ LET h == handler[p]
           msg == ViewMsg(bundles[h.bundle], p)
       IN  /\ h.idx < Len(msg)
           /\ fromP2' = [fromP2 EXCEPT ![p] = Append(@, msg[h.idx + 1])]
           /\ handler' = [handler EXCEPT ![p].idx = h.idx + 1]
    /\ UNCHANGED <<dpf, exit, dataVars, party, peerChan, toP2, pending_by_dim, bundles, rng>>

\* The last write completed: the pop check, then back to recv_field(dim).
HandlePop(p) ==
    /\ handler[p].pc = "send"
    /\ LET h == handler[p]
           b == bundles[h.bundle]
       IN  /\ h.idx = 1 + 2 * h.dim
           /\ pending_by_dim' =
                 IF b.served_p0 /\ b.served_p1
                 THEN [pending_by_dim EXCEPT ![h.dim] = PopServed(@, h.bundle)]
                 ELSE pending_by_dim
           /\ handler' = [handler EXCEPT ![p].pc = "read", ![p].bundle = 0,
                                         ![p].dim = 0, ![p].idx = 0]
    /\ UNCHANGED <<dpf, exit, dataVars, party, chanVars, bundles, rng>>

(***************************************************************************)
(* The dealer on its own: P0 and P1 issue the same sequence of             *)
(* request_preprocessing calls and keep what they receive.                 *)
(***************************************************************************)
MaxReq == 3          \* requests each party issues

\* The dimensions the compute parties ask for: 1 (secure_multiplication)
\* and the length of the item vector.
DealerDims == {1, MaxDim}

\* Seeds std::random_device may hand to the dealer's generator.
RngSeeds == {0, 1}

\* The request sequences of a run: MaxReq requests, each of either dimension.
ReqSeqs == [1 .. MaxReq -> DealerDims]

DealerStart(seed, dims) ==
    /\ pending_by_dim = [d \in dims |-> <<>>]
    /\ bundles = <<>>
    /\ handler = [p \in Party |-> [IdleHandler EXCEPT !.pc = "read"]]
    /\ rng = [seed |-> seed, pos |-> 0]

DealerInit ==
    /\ \E reqs \in ReqSeqs, seed \in RngSeeds :
          /\ party = [p \in Party |->
                [IdleParty EXCEPT !.pc = "sdp_req", !.phase = "prep", !.reqs = reqs,
                                  !.a = [j \in 1 .. Head(reqs) |-> 0],
                                  !.b = [j \in 1 .. Head(reqs) |-> 0]]]
          /\ DealerStart(seed, DealerDims)
    /\ peerChan = EmptyChans
    /\ toP2 = EmptyChans
    /\ fromP2 = EmptyChans
    /\ dpf = NoDpf
    /\ exit = NoExit
    /\ NoData

DealerNext ==
    \E p \in Party :
        \/ SdpRequest(p)
        \/ SdpRecvPrep(p)
        \/ HandleRequest(p)
        \/ HandleSend(p)
        \/ HandlePop(p)

SpecDealer == DealerInit /\ [][DealerNext]_vars

\* The ids of the bundles handle_client for p served for dimension d, in order.
ServedFor(p, d) == SelectSeq(handler[p].log, LAMBDA id : bundles[id].dim = d)

\* The responses party p received for dimension d, in order.
ReceivedFor(p, d) == SelectSeq(party[p].got, LAMBDA r : r.dim = d)

\* C3: FIFO pairing at the dealer.  When P0 and P1 send the same sequence of
\* requested dimensions, under every interleaving of the two handle_client
\* coroutines, for every dimension d and every n the n-th response P0
\* receives for d and the n-th response P1 receives for d are the two views
\* of one and the same bundle, also with different dimensions interleaved.
C3_FifoPairing ==
    \A d \in DealerDims :
        \A n \in 1 .. Len(ReceivedFor(0, d)) :
            n <= Len(ReceivedFor(1, d)) =>
                LET id == ServedFor(0, d)[n]
                    b == bundles[id]
                    r0 == ReceivedFor(0, d)[n]
                    r1 == ReceivedFor(1, d)[n]
                IN  /\ ServedFor(1, d)[n] = id
                    /\ r0.X = b.X0 /\ r0.Y = b.Y0
                    /\ r1.X = b.X1 /\ r1.Y = b.Y1
                    /\ FieldAdd(r0.corr, r1.corr)
                         = FieldAdd(Dot(b.X0, b.Y1), Dot(b.X1, b.Y0))

C3_Witness ==
    /\ party[0].pc = "done"
    /\ party[1].pc = "done"
    /\ Len(party[0].got) >= 3
    /\ party[0].got[1].dim # party[0].got[2].dim
    /\ party[0].got[1].dim = party[0].got[3].dim
    /\ handler[0].log = handler[1].log
    /\ Len(bundles) = Len(handler[0].log)
    /\ \E id \in 1 .. Len(bundles) : bundles[id].X0 # bundles[id].X1

\* C7: bundle views.  For every bundle the dealer creates, the triple P0
\* holds after request_preprocessing is (c0, X0, Y0) with
\* c0 = <X0,Y1> + alpha, the triple P1 holds is (c1, X1, Y1) with
\* c1 = <X1,Y0> - alpha, of the same bundle, so c0 + c1 = <X0,Y1> + <X1,Y0>;
\* the elements are read in the order the dealer wrote them.
C7_BundleViews ==
    \A p \in Party :
        \A m \in 1 .. Len(party[p].got) :
            LET b == bundles[handler[p].log[m]]
                r == party[p].got[m]
                c0 == FieldAdd(Dot(b.X0, b.Y1), b.alpha)
                c1 == FieldSub(Dot(b.X1, b.Y0), b.alpha)
            IN  /\ r.dim = b.dim
                /\ r = IF p = 0
                       THEN [dim |-> b.dim, corr |-> c0, X |-> b.X0, Y |-> b.Y0]
                       ELSE [dim |-> b.dim, corr |-> c1, X |-> b.X1, Y |-> b.Y1]
                /\ FieldAdd(c0, c1) = FieldAdd(Dot(b.X0, b.Y1), Dot(b.X1, b.Y0))

C7_Witness ==
    /\ party[0].got # <<>>
    /\ party[1].got # <<>>
    /\ handler[0].log[1] = handler[1].log[1]
    /\ party[0].got[1].dim = MaxDim
    /\ party[0].got[1].X # party[0].got[1].Y
    /\ party[1].got[1].X # party[1].got[1].Y
    /\ party[0].got[1].X # party[1].got[1].X
    /\ party[0].got[1].corr # party[1].got[1].corr

(***************************************************************************)
(* One secure dot product on its own: P0 and P1 hold shares a_p, b_p and   *)
(* the views of an arbitrary bundle with c0 + c1 = <X0,Y1> + <X1,Y0> are   *)
(* already delivered on the dealer sockets.                                *)
(***************************************************************************)
ShareSeeds == {0, 1, MODULUS - 1}
MaskSeeds == {1, SmallRandomMax}

\* A sample vector of length k: entries s, 2s+1, 3s+2, ... in the field.
SampleVec(k, s) == [i \in 1 .. k |-> (s * i + (i - 1)) % MODULUS]

DotInit ==
    /\ \E k \in 1 .. MaxDim, sa0 \in ShareSeeds, sa1 \in ShareSeeds,
          sb0 \in MaskSeeds, sb1 \in ShareSeeds,
          sx0 \in MaskSeeds, sx1 \in MaskSeeds, sy0 \in MaskSeeds,
          sy1 \in MaskSeeds, c0 \in {0, MODULUS - 2} :
         LET a == [p \in Party |-> SampleVec(k, IF p = 0 THEN sa0 ELSE sa1)]
             b == [p \in Party |-> SampleVec(k, IF p = 0 THEN sb0 ELSE sb1)]
             X == [p \in Party |-> SampleVec(k, IF p = 0 THEN sx0 ELSE sx1)]
             Y == [p \in Party |-> SampleVec(k, IF p = 0 THEN sy0 ELSE sy1)]
             c1 == FieldSub(FieldAdd(Dot(X[0], Y[1]), Dot(X[1], Y[0])), c0)
             c == [p \in Party |-> IF p = 0 THEN c0 ELSE c1]
         IN  /\ party = [p \in Party |-> StartDot(IdleParty, "single", a[p], b[p])]
             /\ fromP2 = [p \in Party |-> <<c[p]>> \o X[p] \o Y[p]]
    /\ peerChan = EmptyChans
    /\ toP2 = EmptyChans
    /\ dpf = NoDpf
    /\ exit = NoExit
    /\ NoData
    /\ NoDealer

DotNext ==
    \E p \in Party : SdpRequest(p) \/ SdpRecvPrep(p) \/ SdpSend(p) \/ SdpRecv(p)

SpecDot == DotInit /\ [][DotNext]_vars

\* C2: secure dot-product correctness.  For every dimension, all share
\* vectors and every bundle with c0 + c1 = <X0,Y1> + <X1,Y0> delivered as the
\* P0-view to P0 and the P1-view to P1, the two values returned by
\* secure_dot_product sum to <a0 + a1, b0 + b1> in the field.
C2_DotProductCorrect ==
    (party[0].phase = "single" /\ party[0].pc = "done" /\ party[1].pc = "done")
        => FieldAdd(party[0].result, party[1].result)
             = Dot(VecAdd(party[0].a, party[1].a), VecAdd(party[0].b, party[1].b))

C2_Witness ==
    /\ party[0].phase = "single"
    /\ party[0].pc = "done"
    /\ party[1].pc = "done"
    /\ Len(party[0].a) = MaxDim
    /\ party[0].corr # 0
    /\ party[1].corr # 0
    /\ Dot(VecAdd(party[0].a, party[1].a), VecAdd(party[0].b, party[1].b))
         \notin {0, party[0].result, party[1].result}
    /\ Dot(party[0].a, party[0].b) # party[0].result

(***************************************************************************)
(* convert_xor_to_additive, A3/common.hpp.  int64_t sums and negations     *)
(* wrap in two's complement (WrapSigned).                                  *)
(***************************************************************************)
\* temp[i]: the word read as int64_t, negated at P1.
SignedTemp(xv, p) ==
    [i \in 1 .. Len(xv) |->
        IF p = 0 THEN WrapSigned(xv[i]) ELSE WrapSigned(0 - WrapSigned(xv[i]))]

RECURSIVE SumFrom(_, _, _)
SumFrom(vec, acc, i) ==
    IF i > Len(vec) THEN acc ELSE SumFrom(vec, WrapSigned(acc + vec[i]), i + 1)

sum_vector(vec) == SumFrom(vec, 0, 1)

\* Mutation of FlipIfNegative: temp is kept whatever the sign of total.
FlipNever(temp, total) == temp

\* if (total < 0) for (auto& v : temp) v = -v;
FlipIfNegative(temp, total) ==
    IF total < 0 THEN [i \in 1 .. Len(temp) |-> WrapSigned(0 - temp[i])] ELSE temp

Additive(temp) == [i \in 1 .. Len(temp) |-> from_signed(temp[i])]

\* Mutation of ConvEntry: both parties receive first.
ConvEntryBothReceive(pr, p, xv) ==
    LET temp == SignedTemp(xv, p)
    IN  [pr EXCEPT !.pc = "conv_recv",
                   !.xor = xv, !.temp = temp, !.sum_local = sum_vector(temp)]

\* Entry of convert_xor_to_additive up to its first network operation.
ConvEntry(pr, p, xv) ==
    LET temp == SignedTemp(xv, p)
    IN  [pr EXCEPT !.pc = IF p = 0 THEN "conv_send" ELSE "conv_recv",
                   !.xor = xv, !.temp = temp, !.sum_local = sum_vector(temp)]

\* After both sums are exchanged: total, the sign flip, the additive vector;
\* inside run the call of secure_dot_product(V, indicator) follows.
ConvFinish(p, pr) ==
    LET total == WrapSigned(pr.sum_local + pr.sum_peer)
        temp == FlipIfNegative(pr.temp, total)
        done == [pr EXCEPT !.total = total, !.temp = temp, !.ind = Additive(temp)]
    IN  IF pr.phase = "b2a" THEN [done EXCEPT !.pc = "done"]
        ELSE StartDot(done, "vj", V[p], done.ind)

\* send_int64(sum_local): first at P0, last at P1.
ConvSend(p) ==
    /\ party[p].pc = "conv_send"
    /\ peerChan' = [peerChan EXCEPT ![Other(p)] = Append(@, party[p].sum_local)]
    /\ party' = [party EXCEPT ![p] =
          IF p = 0 THEN [party[p] EXCEPT !.pc = "conv_recv"]
          ELSE ConvFinish(p, party[p])]
    /\ UNCHANGED <<dpf, exit, dataVars, dealerVars, toP2, fromP2>>

\* recv_int64(sum_peer): last at P0, first at P1.
ConvRecv(p) ==
    /\ party[p].pc = "conv_recv"
    /\ peerChan[p] # <<>>
    /\ peerChan' = [peerChan EXCEPT ![p] = Tail(@)]
    /\ LET pr == [party[p] EXCEPT !.sum_peer = Head(peerChan[p])]
       IN  party' = [party EXCEPT ![p] =
              IF p = 0 THEN ConvFinish(p, pr) ELSE [pr EXCEPT !.pc = "conv_send"]]
    /\ UNCHANGED <<dpf, exit, dataVars, dealerVars, toP2, fromP2>>

(***************************************************************************)
(* The conversion on its own: both parties convert the eval_full outputs   *)
(* of one key pair programmed with value 1.                                *)
(***************************************************************************)
\* Words a DPF leaf may take, around the sign boundary of int64_t.
LeafSamples == {0, 1, 2, Carrier \div 2 - 1, Carrier \div 2, Carrier - 2, Carrier - 1}

\* Pairs of eval_full outputs: those of the key pairs generated under the
\* keystream instances prgs, and arbitrary leaf words at P0 with P1
\* differing in bit 0 at one position only.
B2AInputs(prgs) ==
    {[p \in Party |-> eval_full(x[1], IF p = 0 THEN x[2].k0 ELSE x[2].k1)] :
        x \in UNION {UNION {{<<id, generate(id, size, location, 1, s0, s1)>> :
                                s0 \in Word32, s1 \in Word32, location \in 0 .. size - 1} :
                            size \in DpfSizes} : id \in prgs}}
    \cup
    UNION {{[p \in Party |->
                [i \in 1 .. n |-> IF p = 1 /\ i = j THEN BitXor(d0[i], 1) ELSE d0[i]]] :
              d0 \in [1 .. n -> LeafSamples], j \in 1 .. n} : n \in 1 .. MaxDim}

B2AInit ==
    /\ \E d \in B2AInputs(0 .. NumPrg - 1) :
          party = [p \in Party |->
                      ConvEntry([IdleParty EXCEPT !.phase = "b2a"], p, d[p])]
    /\ peerChan = EmptyChans
    /\ toP2 = EmptyChans
    /\ fromP2 = EmptyChans
    /\ dpf = NoDpf
    /\ exit = NoExit
    /\ NoData
    /\ NoDealer

B2ANext == \E p \in Party : ConvSend(p) \/ ConvRecv(p)

SpecB2A == B2AInit /\ [][B2ANext]_vars

\* C5: XOR-to-additive conversion.  When P0 and P1 convert the eval_full
\* outputs d_0, d_1 of a key pair programmed with value 1, the returned
\* vectors satisfy s_0[i] + s_1[i] = d_0[i] XOR d_1[i] in the field for every
\* index i (1 at the secret position, 0 elsewhere), for both signs of total.
C5_XorToAdditive ==
    (party[0].phase = "b2a" /\ party[0].pc = "done" /\ party[1].pc = "done")
        => \A i \in 1 .. Len(party[0].xor) :
              /\ BitXor(party[0].xor[i], party[1].xor[i]) \in {0, 1}
              /\ FieldAdd(party[0].ind[i], party[1].ind[i])
                   = BitXor(party[0].xor[i], party[1].xor[i])

C5_Witness ==
    /\ party[0].phase = "b2a"
    /\ party[0].pc = "done"
    /\ party[1].pc = "done"
    /\ party[0].total < 0
    /\ party[1].total < 0
    /\ Len(party[0].xor) = Pow2(MaxDepth)
    /\ \E i \in 1 .. Len(party[0].xor) :
          /\ BitXor(party[0].xor[i], party[1].xor[i]) = 1
          /\ party[0].xor[i] >= Carrier \div 2
    /\ \E i \in 1 .. Len(party[0].xor) : party[0].xor[i] \notin {0, 1}

\* Reached as well with the other sign of the exchanged total.
C5_WitnessPositive ==
    /\ party[0].phase = "b2a"
    /\ party[0].pc = "done"
    /\ party[1].pc = "done"
    /\ party[0].total > 0
    /\ Len(party[0].xor) = Pow2(MaxDepth)

(***************************************************************************)
(* A3 compute party, A3/server.cpp run: start-up, the query loop and the   *)
(* final save.                                                             *)
(***************************************************************************)
\* run up to the first query: config and share files loaded (a failed load
\* returns), the query list loaded (an empty list returns before any
\* connection is made), then connect_to_p2 and connect_peers, which throw
\* when the connection cannot be made.
StartWith(p, connected) ==
    /\ party[p].pc = "start"
    /\ IF ~files[p].loadable
       THEN /\ party' = [party EXCEPT ![p].pc = "stopped"]
            /\ exit' = RunEnded(p, FALSE)
            /\ UNCHANGED <<U, V, queries>>
       ELSE /\ U' = [U EXCEPT ![p] = files[p].U]
            /\ V' = [V EXCEPT ![p] = files[p].V]
            /\ queries' = [queries EXCEPT ![p] = files[p].queries]
            /\ IF files[p].queries = <<>>
               THEN /\ party' = [party EXCEPT ![p].pc = "done"]
                    /\ exit' = RunEnded(p, FALSE)
               ELSE IF ~connected
               THEN /\ party' = [party EXCEPT ![p] = Throw([party[p] EXCEPT !.err = TRUE])]
                    /\ exit' = RunEnded(p, TRUE)
               ELSE /\ party' = [party EXCEPT ![p].pc = "loop"]
                    /\ UNCHANGED exit
    /\ UNCHANGED <<dpf, files, config, saved, dealerVars, chanVars>>

\* Start-up with both connections made.
Start(p) == StartWith(p, TRUE)

\* Top of the for loop: the loop test, user_idx, ui_share, eval_full, the
\* domain check (break) and the entry of convert_xor_to_additive.
QueryStart(p) ==
    /\ party[p].pc = "loop"
    /\ LET pr == party[p]
       IN  IF pr.q >= Len(queries[p])
           THEN party' = [party EXCEPT ![p].pc = "save"]
           ELSE LET qr == queries[p][pr.q + 1]
                    user_idx == qr.user_id % config.num_users
                IN  \E indicator_xor \in {eval_full(config.prg, qr.key)} :
                      IF Len(indicator_xor) # config.num_items
                      THEN party' = [party EXCEPT ![p].pc = "save"]
                      ELSE party' = [party EXCEPT ![p] =
                              ConvEntry([pr EXCEPT !.phase = "query",
                                                   !.user_idx = user_idx,
                                                   !.ui = U[p][user_idx + 1]],
                                        p, indicator_xor)]
    /\ UNCHANGED <<dpf, exit, dataVars, dealerVars, chanVars>>

\* save_vector_shares("data/V*_shares_updated.txt", V) after the loop.
Save(p) ==
    /\ party[p].pc = "save"
    /\ saved' = [saved EXCEPT ![p] = [written |-> TRUE, shares |-> V[p]]]
    /\ party' = [party EXCEPT ![p].pc = "done"]
    /\ exit' = RunEnded(p, FALSE)
    /\ UNCHANGED <<dpf, files, config, U, V, queries, dealerVars, chanVars>>

(***************************************************************************)
(* The A3 system: P0, P1 and the dealer, started on input files.           *)
(***************************************************************************)
NumUsers == 2        \* num_users
ItemDepth == 1       \* num_items = 2^ItemDepth
MaxQueries == 2      \* longest query list

NumItems == Pow2(ItemDepth)

\* Query samples: the secret location, the user_id written to each party's
\* file, the DPF domain and the root seeds of the key pair.
QuerySamples ==
    {[loc |-> 0, uid0 |-> 0, uid1 |-> 0, size |-> NumItems, s0 |-> 1, s1 |-> 2],
     [loc |-> NumItems - 1, uid0 |-> NumUsers + 1, uid1 |-> NumUsers + 1,
      size |-> NumItems, s0 |-> 6, s1 |-> 5],
     [loc |-> NumItems - 1, uid0 |-> 0, uid1 |-> 1, size |-> NumItems,
      s0 |-> 4, s1 |-> 3],
     [loc |-> 0, uid0 |-> 1, uid1 |-> 1, size |-> NumItems \div 2, s0 |-> 1, s1 |-> 6]}

QueryLists == UNION {[1 .. n -> QuerySamples] : n \in 0 .. MaxQueries}

\* The entry of queries_p<p>.txt for a sample.
QueryEntry(prg, qs, p) ==
    LET keys == generate(prg, qs.size, qs.loc, 1, qs.s0, qs.s1)
    IN  [user_id |-> IF p = 0 THEN qs.uid0 ELSE qs.uid1,
         key |-> IF p = 0 THEN keys.k0 ELSE keys.k1]

\* Share files for data sample d.
ShareFiles(d, p) ==
    [U |-> SampleVec(NumUsers, IF p = 0 THEN 1 + d ELSE MODULUS - 2 + d),
     V |-> SampleVec(NumItems, IF p = 0 THEN 2 + d ELSE 3)]

\* The system before any process ran: query lists from lists, share data
\* from samples, dealer seeds from seeds and, per party, whether its config
\* and share files can be loaded.
SystemInit(lists, samples, seeds, loads) ==
    /\ \E ql \in lists, d \in samples, seed \in seeds, ld \in loads :
          /\ files = [p \in Party |->
                [U |-> ShareFiles(d, p).U, V |-> ShareFiles(d, p).V,
                 queries |-> [n \in 1 .. Len(ql) |-> QueryEntry(0, ql[n], p)],
                 loadable |-> ld[p]]]
          /\ DealerStart(seed, {1, NumItems})
    /\ config = [num_users |-> NumUsers, num_items |-> NumItems, prg |-> 0]
    /\ U = EmptyChans
    /\ V = EmptyChans
    /\ queries = EmptyChans
    /\ saved = [p \in Party |-> NotSaved]
    /\ party = [p \in Party |-> [IdleParty EXCEPT !.pc = "start"]]
    /\ peerChan = EmptyChans
    /\ toP2 = EmptyChans
    /\ fromP2 = EmptyChans
    /\ dpf = NoDpf
    /\ exit = NoExit

Init == SystemInit(QueryLists, {0, 1}, RngSeeds, {[p \in Party |-> TRUE]})

Next ==
    \E p \in Party :
        \/ Start(p)
        \/ QueryStart(p)
        \/ ConvSend(p)
        \/ ConvRecv(p)
        \/ SdpRequest(p)
        \/ SdpRecvPrep(p)
        \/ SdpSend(p)
        \/ SdpRecv(p)
        \/ Save(p)
        \/ HandleRequest(p)
        \/ HandleSend(p)
        \/ HandlePop(p)

Spec == Init /\ [][Next]_vars

\* The same system started on query files holding exactly one query.
InitSingle == Init /\ Len(files[0].queries) = 1

SpecQuery == InitSingle /\ [][Next]_vars

\* The secret position of a key pair, recovered from the two keys.
QueryLocation(k0, k1) ==
    CHOOSE j \in 0 .. k0.size - 1 :
        BitXor(eval(config.prg, k0, j), eval(config.prg, k1, j)) # 0

Reconstruct(v0, v1) == [k \in 1 .. Len(v0) |-> FieldAdd(v0[k], v1[k])]

\* V <- V with slot j replaced by V[j] + u * (1 - u * V[j]).
PlainUpdate(v, u, j) ==
    [k \in 1 .. Len(v) |->
        IF k = j + 1
        THEN FieldAdd(v[k], FieldMul(u, FieldSub(1, FieldMul(u, v[k]))))
        ELSE v[k]]

\* C4: selected-slot update law.  For a single query with user row i and DPF
\* location j (value 1), run by P0, P1 and P2 to completion, the
\* reconstructed V0 + V1 afterwards has V[j] = V_before[j] + u_i * (1 - u_i *
\* V_before[j]) and V[k] = V_before[k] for k # j, whatever bundles were drawn.
C4_SelectedSlotUpdate ==
    (/\ party[0].pc = "done" /\ party[1].pc = "done"
     /\ Len(queries[0]) = 1 /\ Len(queries[1]) = 1
     /\ queries[0][1].key.size = config.num_items
     /\ queries[0][1].user_id % config.num_users
          = queries[1][1].user_id % config.num_users)
        => LET i == queries[0][1].user_id % config.num_users
               j == QueryLocation(queries[0][1].key, queries[1][1].key)
               u == FieldAdd(files[0].U[i + 1], files[1].U[i + 1])
           IN  /\ saved[0].written /\ saved[1].written
               /\ Reconstruct(saved[0].shares, saved[1].shares)
                    = PlainUpdate(Reconstruct(files[0].V, files[1].V), u, j)

C4_Witness ==
    /\ party[0].pc = "done" /\ party[1].pc = "done"
    /\ Len(queries[0]) = 1 /\ Len(queries[1]) = 1
    /\ queries[0][1].key.size = config.num_items
    /\ queries[0][1].user_id = queries[1][1].user_id
    /\ queries[0][1].user_id >= config.num_users
    /\ QueryLocation(queries[0][1].key, queries[1][1].key) = NumItems - 1
    /\ saved[0].written /\ saved[1].written
    /\ Reconstruct(saved[0].shares, saved[1].shares) # Reconstruct(files[0].V, files[1].V)
    /\ saved[0].shares[1] # files[0].V[1]

\* C8: user-id alignment in the A3 query driver.  In every query both
\* compute parties index the same row of U, also when the user_id stored for
\* that query differs between queries_p0.txt and queries_p1.txt, in which
\* case P0's id is the one both use.
C8_SameUserRow ==
    (/\ party[0].phase # "none" /\ party[1].phase # "none"
     /\ party[0].q = party[1].q)
        => /\ party[0].user_idx = party[1].user_idx
           /\ party[1].user_idx
                = queries[0][party[0].q + 1].user_id % config.num_users

\* C10: no partial commit.  An A3 compute party writes its V*_shares_updated
\* file only if every query of the loaded list was processed to completion;
\* when processing stops earlier (the domain-mismatch exit included) the
\* partially updated in-memory V is not persisted.
C10_NoPartialCommit ==
    \A p \in Party : saved[p].written => party[p].q = Len(queries[p])

\* A run in which the first query updated V, the second one left the loop
\* on a domain mismatch, and the updated V was written.
C10_PartialPersisted ==
    \E p \in Party :
        /\ saved[p].written
        /\ party[p].q = 1
        /\ Len(queries[p]) = 2
        /\ saved[p].shares # files[p].V

(***************************************************************************)
(* A1: the matrix variant.  U is m x k, V is n x k, a query is a user_id   *)
(* and an additive share of a one-hot item vector.  A1/pB.cpp, A1/p2.cpp.  *)
(***************************************************************************)
\* A1 request_preprocessing reads corr, then X[i], Y[i] alternately.
A1PrepStore(pr, v) ==
    IF pr.idx = 0 THEN [pr EXCEPT !.corr = v, !.idx = 1]
    ELSE IF pr.idx % 2 = 1 THEN [pr EXCEPT !.X = Append(@, v), !.idx = pr.idx + 1]
    ELSE [pr EXCEPT !.Y = Append(@, v), !.idx = pr.idx + 1]

\* A1 secure_dot_product(D, t) sends masked_t = t + Y, then masked_D = D + X.
A1MaskedOut(D, t, X, Y) ==
    [i \in 1 .. (2 * Len(D)) |->
        IF i <= Len(D) THEN FieldAdd(t[i], Y[i])
        ELSE FieldAdd(D[i - Len(D)], X[i - Len(D)])]

\* local_result after pin = peer_masked_t \o peer_masked_D arrived.
A1DotLocal(D, t, Y, corr, pin) ==
    LET k == Len(D)
        pt == SubSeq(pin, 1, k)
        pD == SubSeq(pin, k + 1, 2 * k)
    IN  FieldAdd(SubLoop(MulLoop(0, D, t, pt, 1), Y, pD, 1), corr)

Column(M, f) == [i \in 1 .. Len(M) |-> M[i][f]]

\* Mutation of A1SyncUser: each party keeps the id of its own file.
A1SyncUserOwn(p, own, peer) == own

\* user_id after the exchange: P0 drives, P1 follows P0.
A1SyncUser(p, own, peer) == IF p = 0 THEN own ELSE peer

\* After the id exchange: secure_compute_vj_share starts with column 0.
A1BeginQuery(p, pr, user_id) ==
    StartDot([pr EXCEPT !.user_idx = user_id, !.vj = <<>>, !.temp = <<>>],
             "vj", Column(V[p], 1), pr.ind)

\* The caller's code after secure_dot_product returned res (A1 run and the
\* two helper loops), up to the next network operation.
A1AfterDot(p, pr, res) ==
    CASE pr.phase = "vj" ->
            LET vj == Append(pr.vj, res)
            IN  IF Len(vj) < config.k
                THEN StartDot([pr EXCEPT !.vj = vj], "vj",
                              Column(V[p], Len(vj) + 1), pr.ind)
                ELSE StartDot([pr EXCEPT !.vj = vj, !.ui = U[p][pr.user_idx + 1]],
                              "dot", U[p][pr.user_idx + 1], vj)
      [] pr.phase = "dot" ->
            LET delta == DeltaShare(p, res)
            IN  StartDot([pr EXCEPT !.delta = delta], "mult", <<delta>>, <<pr.vj[1]>>)
      [] pr.phase = "mult" ->
            LET vjd == Append(pr.temp, res)
            IN  IF Len(vjd) < config.k
                THEN StartDot([pr EXCEPT !.temp = vjd], "mult",
                              <<pr.delta>>, <<pr.vj[Len(vjd) + 1]>>)
                ELSE [IdleParty EXCEPT !.pc = "a1_loop", !.q = pr.q + 1]
      [] OTHER -> [pr EXCEPT !.pc = "done", !.result = res]

\* Mutation of A1UpdatedU: the updated profile is stored in row 0.
A1UpdatedUFirstRow(p, pr, res) ==
    IF pr.phase = "mult" /\ Len(pr.temp) + 1 = config.k
    THEN LET vjd == Append(pr.temp, res)
         IN  [U EXCEPT ![p][1] = [f \in 1 .. config.k |-> FieldAdd(pr.ui[f], vjd[f])]]
    ELSE U

\* U_share[user_id] = updated_ui once the last product of a query returned.
A1UpdatedU(p, pr, res) ==
    IF pr.phase = "mult" /\ Len(pr.temp) + 1 = config.k
    THEN LET vjd == Append(pr.temp, res)
         IN  [U EXCEPT ![p][pr.user_idx + 1] =
                 [f \in 1 .. config.k |-> FieldAdd(pr.ui[f], vjd[f])]]
    ELSE U

\* Connections made, shares and queries loaded; no query, no output.
A1Start(p) ==
    /\ party[p].pc = "a1_start"
    /\ U' = [U EXCEPT ![p] = files[p].U]
    /\ V' = [V EXCEPT ![p] = files[p].V]
    /\ queries' = [queries EXCEPT ![p] = files[p].queries]
    /\ party' = [party EXCEPT ![p].pc =
          IF files[p].queries = <<>> THEN "done" ELSE "a1_loop"]
    /\ UNCHANGED <<dpf, exit, files, config, saved, dealerVars, chanVars>>

\* Top of the query loop.
A1QueryStart(p) ==
    /\ party[p].pc = "a1_loop"
    /\ LET pr == party[p]
       IN  party' = [party EXCEPT ![p] =
              IF pr.q >= Len(queries[p]) THEN [pr EXCEPT !.pc = "a1_save"]
              ELSE [pr EXCEPT !.pc = IF p = 0 THEN "sync_send" ELSE "sync_recv",
                              !.phase = "sync",
                              !.ind = queries[p][pr.q + 1].e_j_share]]
    /\ UNCHANGED <<dpf, exit, dataVars, dealerVars, chanVars>>

\* send_coroutine(peer_sock, my_uid): first at P0, last at P1.
A1SyncSend(p) ==
    /\ party[p].pc = "sync_send"
    /\ LET pr == party[p]
           own == queries[p][pr.q + 1].user_id
       IN  /\ peerChan' = [peerChan EXCEPT ![Other(p)] = Append(@, own)]
           /\ party' = [party EXCEPT ![p] =
                 IF p = 0 THEN [pr EXCEPT !.pc = "sync_recv"]
                 ELSE A1BeginQuery(p, pr, A1SyncUser(p, own, pr.sum_peer))]
    /\ UNCHANGED <<dpf, exit, dataVars, dealerVars, toP2, fromP2>>

\* recv_coroutine(peer_sock, peer_uid): last at P0, first at P1.
A1SyncRecv(p) ==
    /\ party[p].pc = "sync_recv"
    /\ peerChan[p] # <<>>
    /\ peerChan' = [peerChan EXCEPT ![p] = Tail(@)]
    /\ LET pr == [party[p] EXCEPT !.sum_peer = Head(peerChan[p])]
           own == queries[p][pr.q + 1].user_id
       IN  party' = [party EXCEPT ![p] =
              IF p = 0 THEN A1BeginQuery(p, pr, A1SyncUser(p, own, pr.sum_peer))
              ELSE [pr EXCEPT !.pc = "sync_send"]]
    /\ UNCHANGED <<dpf, exit, dataVars, dealerVars, toP2, fromP2>>

\* A1 request_preprocessing: one recv_coroutine.
A1SdpRecvPrep(p) ==
    /\ party[p].pc = "a1_prep"
    /\ fromP2[p] # <<>>
    /\ fromP2' = [fromP2 EXCEPT ![p] = Tail(@)]
    /\ LET pr == A1PrepStore(party[p], Head(fromP2[p]))
       IN  party' = [party EXCEPT ![p] =
              IF pr.idx <= 2 * Len(pr.a) THEN pr
              ELSE [pr EXCEPT !.pc = "a1_send", !.idx = 0]]
    /\ UNCHANGED <<dpf, exit, dataVars, dealerVars, peerChan, toP2>>

\* A1 secure_dot_product entry and request_preprocessing: send the dimension.
A1SdpRequest(p) ==
    /\ party[p].pc = "sdp_req"
    /\ IF Len(party[p].a) # Len(party[p].b)
       THEN /\ party' = [party EXCEPT ![p].pc = "failed"]
            /\ UNCHANGED toP2
       ELSE /\ toP2' = [toP2 EXCEPT ![p] = Append(@, Len(party[p].a))]
            /\ party' = [party EXCEPT ![p].pc = "a1_prep", ![p].idx = 0]
    /\ UNCHANGED <<dpf, exit, dataVars, dealerVars, peerChan, fromP2>>

\* send_vector(masked_t); send_vector(masked_D): one field element.
A1SdpSend(p) ==
    /\ party[p].pc = "a1_send"
    /\ LET pr == party[p]
           out == A1MaskedOut(pr.a, pr.b, pr.X, pr.Y)
       IN  /\ peerChan' = [peerChan EXCEPT ![Other(p)] = Append(@, out[pr.idx + 1])]
           /\ party' = [party EXCEPT ![p] =
                 IF pr.idx + 1 < Len(out) THEN [pr EXCEPT !.idx = pr.idx + 1]
                 ELSE [pr EXCEPT !.pc = "a1_recv", !.idx = 0]]
    /\ UNCHANGED <<dpf, exit, dataVars, dealerVars, toP2, fromP2>>

\* recv_vector(peer_masked_t); recv_vector(peer_masked_D): one field element;
\* after the last one the local result and the caller's next code.
A1SdpRecv(p) ==
    /\ party[p].pc = "a1_recv"
    /\ peerChan[p] # <<>>
    /\ peerChan' = [peerChan EXCEPT ![p] = Tail(@)]
    /\ LET pr == [party[p] EXCEPT !.pin = Append(@, Head(peerChan[p]))]
       IN  IF Len(pr.pin) < 2 * Len(pr.a)
           THEN /\ party' = [party EXCEPT ![p] = pr]
                /\ U' = U
           ELSE LET res == A1DotLocal(pr.a, pr.b, pr.Y, pr.corr, pr.pin)
                IN  /\ party' = [party EXCEPT ![p] = A1AfterDot(p, pr, res)]
                    /\ U' = A1UpdatedU(p, pr, res)
    /\ UNCHANGED <<dpf, exit, files, config, V, queries, saved, dealerVars, toP2, fromP2>>

\* save_matrix_shares("data/U*_shares_updated.txt", U_share).
A1Save(p) ==
    /\ party[p].pc = "a1_save"
    /\ saved' = [saved EXCEPT ![p] = [written |-> TRUE, shares |-> U[p]]]
    /\ party' = [party EXCEPT ![p].pc = "done"]
    /\ UNCHANGED <<dpf, exit, files, config, U, V, queries, dealerVars, chanVars>>

(***************************************************************************)
(* A1 dealer, A1/p2.cpp handle_client.                                     *)
(***************************************************************************)
\* The field elements the A1 handler writes: corr, then X_p[i], Y_p[i]
\* alternately.
A1ViewMsg(b, p) ==
    LET X == IF p = 0 THEN b.X0 ELSE b.X1
        Y == IF p = 0 THEN b.Y0 ELSE b.Y1
    IN  <<Correction(b, p)>> \o
        [i \in 1 .. (2 * b.dim) |-> IF i % 2 = 1 THEN X[(i + 1) \div 2] ELSE Y[i \div 2]]

\* The request is read; the queue decision; corr; the write of corr.
A1HandleRequest(p) ==
    /\ handler[p].pc = "a1_read"
    /\ toP2[p] # <<>>
    /\ toP2' = [toP2 EXCEPT ![p] = Tail(@)]
    /\ LET dim == Head(toP2[p])
           queue == pending_by_dim[dim]
           reuse == FrontWaitsFor(queue, p)
           id == IF reuse THEN Head(queue) ELSE Len(bundles) + 1
           b == MarkServed(IF reuse THEN bundles[id]
                           ELSE generate_bundle(rng.seed, rng.pos, dim), p)
       IN  /\ bundles' = IF reuse THEN [bundles EXCEPT ![id] = b]
                         ELSE Append(bundles, b)
           /\ pending_by_dim' = IF reuse THEN pending_by_dim
                                ELSE [pending_by_dim EXCEPT ![dim] = Append(@, id)]
           /\ rng' = IF reuse THEN rng ELSE [rng EXCEPT !.pos = @ + 1 + 4 * dim]
           /\ fromP2' = [fromP2 EXCEPT ![p] = Append(@, A1ViewMsg(b, p)[1])]
           /\ handler' = [handler EXCEPT ![p] =
                 [pc |-> "a1_send", bundle |-> id, dim |-> dim, idx |-> 1,
                  log |-> Append(handler[p].log, id)]]
    /\ UNCHANGED <<dpf, exit, dataVars, party, peerChan>>

\* One async_write of X_p[i] or Y_p[i].
A1HandleSend(p) ==
    /\ handler[p].pc = "a1_send"
    /\ LET h == handler[p]
           msg == A1ViewMsg(bundles[h.bundle], p)
       IN  /\ h.idx < Len(msg)
           /\ fromP2' = [fromP2 EXCEPT ![p] = Append(@, msg[h.idx + 1])]
           /\ handler' = [handler EXCEPT ![p].idx = h.idx + 1]
    /\ UNCHANGED <<dpf, exit, dataVars, party, peerChan, toP2, pending_by_dim, bundles, rng>>

\* What q.pop_front() may do on an empty deque (undefined behaviour): leave
\* the queue as it is, or bring the dealer down.
PopOnEmptyOutcomes == {"none", "crash"}

\* The last write completed: if both flags are set, q.pop_front() whatever
\* the front is; then back to reading the next request.
A1HandlePop(p) ==
    /\ handler[p].pc = "a1_send"
    /\ handler[p].idx = 1 + 2 * handler[p].dim
    /\ LET h == handler[p]
           b == bundles[h.bundle]
           queue == pending_by_dim[h.dim]
           back == [handler EXCEPT ![p].pc = "a1_read", ![p].bundle = 0,
                                   ![p].dim = 0, ![p].idx = 0]
       IN  IF ~(b.served_p0 /\ b.served_p1)
           THEN /\ pending_by_dim' = pending_by_dim
                /\ handler' = back
           ELSE IF queue # <<>>
           THEN /\ pending_by_dim' = [pending_by_dim EXCEPT ![h.dim] = Tail(queue)]
                /\ handler' = back
           ELSE \E outcome \in PopOnEmptyOutcomes :
                   /\ pending_by_dim' = pending_by_dim
                   /\ handler' = IF outcome = "crash"
                                 THEN [q \in Party |-> [handler[q] EXCEPT !.pc = "crashed"]]
                                 ELSE back
    /\ UNCHANGED <<dpf, exit, dataVars, party, chanVars, bundles, rng>>

(***************************************************************************)
(* The A1 system: P0, P1 and the A1 dealer, started on input files.        *)
(***************************************************************************)
A1Features == 2      \* k, the number of features
A1DealerQueries == 1 \* longest query list run against the A1 dealer

\* A1 query samples: the user_id in each party's file, the selected item
\* and the sample of P0's share of e_j.
A1QuerySamples ==
    {[uid0 |-> 0, uid1 |-> 0, item |-> 0, s |-> 1],
     [uid0 |-> NumUsers - 1, uid1 |-> NumUsers - 1, item |-> NumItems - 1, s |-> 2],
     [uid0 |-> NumUsers - 1, uid1 |-> 0, item |-> NumItems - 1, s |-> 3]}

A1QueryLists == UNION {[1 .. n -> A1QuerySamples] : n \in 0 .. MaxQueries}

\* Query lists of the runs against the dealer.
A1DealerLists == {ql \in A1QueryLists : Len(ql) <= A1DealerQueries}

\* The line of queries_p<p>.txt for a sample: e_j1[i] = e_j[i] - e_j0[i].
A1QueryEntry(qs, p) ==
    LET e0 == SampleVec(NumItems, qs.s)
    IN  [user_id |-> IF p = 0 THEN qs.uid0 ELSE qs.uid1,
         e_j_share |-> IF p = 0 THEN e0
                       ELSE [i \in 1 .. NumItems |->
                               FieldSub(IF i = qs.item + 1 THEN 1 ELSE 0, e0[i])]]

\* Share matrices: row r of a rows x A1Features matrix.
SampleMatrix(rows, s) == [r \in 1 .. rows |-> SampleVec(A1Features, s + r)]

A1Init ==
    /\ \E ql \in A1DealerLists, seed \in RngSeeds :
          /\ files = [p \in Party |->
                [U |-> SampleMatrix(NumUsers, IF p = 0 THEN 1 ELSE MODULUS - 3),
                 V |-> SampleMatrix(NumItems, IF p = 0 THEN 2 ELSE 4),
                 queries |-> [n \in 1 .. Len(ql) |-> A1QueryEntry(ql[n], p)]]]
          /\ rng = [seed |-> seed, pos |-> 0]
    /\ pending_by_dim = [d \in {1, NumItems, A1Features} |-> <<>>]
    /\ bundles = <<>>
    /\ handler = [p \in Party |-> [IdleHandler EXCEPT !.pc = "a1_read"]]
    /\ config = [m |-> NumUsers, n |-> NumItems, k |-> A1Features]
    /\ U = EmptyChans
    /\ V = EmptyChans
    /\ queries = EmptyChans
    /\ saved = [p \in Party |-> NotSaved]
    /\ party = [p \in Party |-> [IdleParty EXCEPT !.pc = "a1_start"]]
    /\ peerChan = EmptyChans
    /\ toP2 = EmptyChans
    /\ fromP2 = EmptyChans
    /\ dpf = NoDpf
    /\ exit = NoExit

A1Next ==
    \E p \in Party :
        \/ A1Start(p)
        \/ A1QueryStart(p)
        \/ A1SyncSend(p)
        \/ A1SyncRecv(p)
        \/ A1SdpRequest(p)
        \/ A1SdpRecvPrep(p)
        \/ A1SdpSend(p)
        \/ A1SdpRecv(p)
        \/ A1Save(p)
        \/ A1HandleRequest(p)
        \/ A1HandleSend(p)
        \/ A1HandlePop(p)

SpecA1 == A1Init /\ [][A1Next]_vars

ReconstructMatrix(M0, M1) == [r \in 1 .. Len(M0) |-> Reconstruct(M0[r], M1[r])]

\* A1/direct_verify_simple.cpp: the plaintext U after queries t, t+1, ...
\* of the two query files, applied in file order with P0's user_id.
RECURSIVE A1Direct(_, _, _)
A1Direct(Um, Vm, t) ==
    IF t > Len(files[0].queries) THEN Um
    ELSE LET user_id == files[0].queries[t].user_id
             e_j == Reconstruct(files[0].queries[t].e_j_share,
                                files[1].queries[t].e_j_share)
             v_j == [f \in 1 .. config.k |-> Dot(Column(Vm, f), e_j)]
         IN  IF user_id >= config.m THEN A1Direct(Um, Vm, t + 1)
             ELSE LET delta == FieldSub(1, Dot(Um[user_id + 1], v_j))
                      row == [f \in 1 .. config.k |->
                                FieldAdd(Um[user_id + 1][f], FieldMul(v_j[f], delta))]
                  IN  A1Direct([Um EXCEPT ![user_id + 1] = row], Vm, t + 1)

\* C6: the A1 protocol against its reference check.  For every sequence of
\* queries the matrix U0_updated + U1_updated written by the two A1 compute
\* parties run with the A1 dealer equals, entry by entry, the plaintext
\* result of applying U[user_id] <- U[user_id] + v_j * (1 - <U[user_id], v_j>)
\* query after query in file order, with v_j = V^T e_j.
C6_A1MatchesDirect ==
    (/\ party[0].pc = "done" /\ party[1].pc = "done"
     /\ saved[0].written /\ saved[1].written)
        => ReconstructMatrix(saved[0].shares, saved[1].shares)
             = A1Direct(ReconstructMatrix(files[0].U, files[1].U),
                        ReconstructMatrix(files[0].V, files[1].V), 1)

\* The pop that causes it: a handler pops a bundle it did not serve.
C6_ForeignPop ==
    \E p \in Party :
        /\ handler[p].pc = "a1_send"
        /\ handler[p].idx = 1 + 2 * handler[p].dim
        /\ bundles[handler[p].bundle].served_p0
        /\ bundles[handler[p].bundle].served_p1
        /\ pending_by_dim[handler[p].dim] # <<>>
        /\ Head(pending_by_dim[handler[p].dim]) # handler[p].bundle

(***************************************************************************)
(* The A1 query driver with every bundle request answered by the two       *)
(* views of one fresh bundle: the responses are already on the dealer      *)
(* sockets, in request order.                                              *)
(***************************************************************************)
\* The dimensions one A1 query requests: k times n, then k, then k times 1.
A1QueryDims ==
    [i \in 1 .. (2 * A1Features + 1) |->
        IF i <= A1Features THEN NumItems
        ELSE IF i = A1Features + 1 THEN A1Features ELSE 1]

RECURSIVE A1Responses(_, _, _, _, _)
A1Responses(nq, i, seed, pos, p) ==
    IF nq = 0 THEN <<>>
    ELSE LET dim == A1QueryDims[i]
             last == i = Len(A1QueryDims)
         IN  A1ViewMsg(generate_bundle(seed, pos, dim), p) \o
             A1Responses(IF last THEN nq - 1 ELSE nq, IF last THEN 1 ELSE i + 1,
                         seed, pos + 1 + 4 * dim, p)

A1SyncInit ==
    /\ \E ql \in A1QueryLists, seed \in RngSeeds :
          /\ files = [p \in Party |->
                [U |-> SampleMatrix(NumUsers, IF p = 0 THEN 1 ELSE MODULUS - 3),
                 V |-> SampleMatrix(NumItems, IF p = 0 THEN 2 ELSE 4),
                 queries |-> [n \in 1 .. Len(ql) |-> A1QueryEntry(ql[n], p)]]]
          /\ rng = [seed |-> seed, pos |-> 0]
          /\ fromP2 = [p \in Party |-> A1Responses(Len(ql), 1, seed, 0, p)]
    /\ pending_by_dim = <<>>
    /\ bundles = <<>>
    /\ handler = [p \in Party |-> IdleHandler]
    /\ config = [m |-> NumUsers, n |-> NumItems, k |-> A1Features]
    /\ U = EmptyChans
    /\ V = EmptyChans
    /\ queries = EmptyChans
    /\ saved = [p \in Party |-> NotSaved]
    /\ party = [p \in Party |-> [IdleParty EXCEPT !.pc = "a1_start"]]
    /\ peerChan = EmptyChans
    /\ toP2 = EmptyChans
    /\ dpf = NoDpf
    /\ exit = NoExit

A1SyncNext ==
    \E p \in Party :
        \/ A1Start(p)
        \/ A1QueryStart(p)
        \/ A1SyncSend(p)
        \/ A1SyncRecv(p)
        \/ A1SdpRequest(p)
        \/ A1SdpRecvPrep(p)
        \/ A1SdpSend(p)
        \/ A1SdpRecv(p)
        \/ A1Save(p)

SpecA1Sync == A1SyncInit /\ [][A1SyncNext]_vars

\* C9: user-id alignment in the A1 query driver.  At the top of each query
\* P0 sends its user_id and then reads P1's, P1 reads P0's and then sends
\* its own; afterwards both parties use P0's user_id as the row of U to read
\* and to update, for every pair of ids in the two query files, and the
\* exchange never leaves both parties waiting for each other.
C9_UserIdSync ==
    /\ \A p \in Party :
          LET pr == party[p]
          IN  /\ pr.phase \in {"vj", "dot", "mult"}
                    => pr.user_idx = files[0].queries[pr.q + 1].user_id
              /\ pr.phase \in {"dot", "mult"}
                    => pr.ui = U[p][files[0].queries[pr.q + 1].user_id + 1]
              /\ \A r \in 1 .. Len(U[p]) :
                    U[p][r] # files[p].U[r]
                        => \E t \in 1 .. pr.q : files[0].queries[t].user_id = r - 1
    /\ ~(/\ party[0].pc = "sync_recv" /\ peerChan[0] = <<>>
         /\ party[1].pc = "sync_recv" /\ peerChan[1] = <<>>)
    /\ (party[0].pc = "sync_recv" /\ party[1].pc = "sync_send")
          => party[0].q = party[1].q

C9_Witness ==
    /\ party[0].pc = "done" /\ party[1].pc = "done"
    /\ saved[0].written /\ saved[1].written
    /\ Len(files[0].queries) = MaxQueries
    /\ \E t \in 1 .. Len(files[0].queries) :
          /\ files[0].queries[t].user_id # files[1].queries[t].user_id
          /\ U[1][files[0].queries[t].user_id + 1]
               # files[1].U[files[0].queries[t].user_id + 1]
          /\ U[1][files[1].queries[t].user_id + 1]
               = files[1].U[files[1].queries[t].user_id + 1]

(***************************************************************************)
(* The A3 system with failures: files that cannot be loaded, connections   *)
(* that cannot be made, and network reads and writes that fail.            *)
(***************************************************************************)
\* The positions at which run is suspended in a network read or write.
NetworkPcs ==
    {"conv_send", "conv_recv", "sdp_req", "sdp_prep", "sdp_send", "sdp_recv"}

\* The pending async_read / async_write of party p completes with an error
\* (peer or P2 closed, short read): use_awaitable throws system_error out of
\* send_field / recv_field / send_int64 / recv_int64 and out of run.
TransportFailure(p) ==
    /\ party[p].pc \in NetworkPcs
    /\ party' = [party EXCEPT ![p] = Throw([party[p] EXCEPT !.err = TRUE])]
    /\ exit' = RunEnded(p, TRUE)
    /\ UNCHANGED <<dpf, dataVars, dealerVars, chanVars>>

\* Start-up in which connect_to_p2 or connect_peers throws.
StartNoConnection(p) == StartWith(p, FALSE)

\* A3/p2.cpp main: 1 when accept or the role read threw, 0 once io.run()
\* returned.
p2_main(threw) == IF threw THEN 1 ELSE 0

\* handle_client for p: the pending read or write on its socket fails
\* because party p has ended and closed the connection (a broken transport
\* is noticed by the party first); catch (...) {} ends the coroutine.  When
\* the other handle_client has ended too, io.run() returns and main returns.
HandleFail(p) ==
    /\ handler[p].pc \in {"read", "send"}
    /\ exit[p].ended
    /\ handler' = [handler EXCEPT ![p].pc = "ended"]
    /\ exit' = IF handler[Other(p)].pc = "ended"
               THEN [exit EXCEPT ![2] = [ended |-> TRUE, status |-> p2_main(FALSE)]]
               ELSE exit
    /\ UNCHANGED <<dpf, dataVars, party, chanVars, pending_by_dim, bundles, rng>>

\* Query lists of the runs with failures: one list of each length, made of
\* the samples whose two files agree on the user and whose key has the
\* configured domain, the first location and the last one in turn.
FaultSample(n) ==
    CHOOSE qs \in QuerySamples :
        /\ qs.uid0 = qs.uid1
        /\ qs.size = NumItems
        /\ (qs.loc = 0) <=> (n % 2 = 1)

FaultLists == {[n \in 1 .. len |-> FaultSample(n)] : len \in 0 .. MaxQueries}

FaultInit == SystemInit(FaultLists, {0}, {0}, [Party -> BOOLEAN])

FaultNext ==
    \/ Next
    \/ \E p \in Party :
          \/ StartNoConnection(p)
          \/ TransportFailure(p)
          \/ HandleFail(p)

SpecFault == FaultInit /\ [][FaultNext]_vars


\* C11: a transport failure aborts without persisting.  Once a network read
\* or write of an A3 compute party has failed, at whatever suspension point
\* of whatever query, that party has ended: it takes no further step (no
\* further query, no further change of its V) and its V*_shares_updated file
\* is never written.
C11_FailureAbortsNoPersist ==
    /\ [](\A p \in Party : party[p].err => ~saved[p].written)
    /\ [][\A p \in Party :
             party[p].err => /\ party'[p] = party[p]
                             /\ V'[p] = V[p]
                             /\ saved'[p] = saved[p]]_vars

\* P0 failed inside its second query, holding an updated V in memory that
\* was not written, and P1 had completed at least the first query too.
C11_Witness ==
    /\ party[0].err
    /\ party[0].q = 1
    /\ party[0].phase = "upd"
    /\ V[0] # files[0].V
    /\ ~saved[0].written
    /\ party[1].q >= 1

\* The outcome of a compute party's run that counts as success: every query
\* of a non-empty list processed and the updated shares written.
RunSucceeded(p) ==
    /\ files[p].loadable
    /\ files[p].queries # <<>>
    /\ ~party[p].err
    /\ party[p].pc = "done"
    /\ party[p].q = Len(queries[p])
    /\ saved[p].written

\* The dealer's success: neither handle_client ended while it was serving a
\* bundle.
DealerSucceeded == \A p \in Party : handler[p].bundle = 0

\* C12: exit codes.  A compute party that has exited has status 0 exactly
\* when it completed successfully, and a non-zero status after an unloadable
\* file, an empty query list, a transport failure or a parameter error; the
\* dealer that has exited has status 0 exactly when neither handle_client
\* was cut off by a transport failure while serving a bundle.
C12_ExitCodes ==
    /\ \A p \in Party :
          exit[p].ended => ((exit[p].status = 0) <=> RunSucceeded(p))
    /\ exit[2].ended => ((exit[2].status = 0) <=> DealerSucceeded)

\* A compute party has exited with status 0 after a transport failure in
\* its second query, and so has the dealer after being cut off in a bundle.
C12_ZeroAfterFailure ==
    /\ exit[0].ended /\ exit[0].status = 0
    /\ party[0].err /\ party[0].q = 1
    /\ exit[2].ended /\ exit[2].status = 0
    /\ ~DealerSucceeded

\* C13: zero-query run.  When the query list is empty the run completes and
\* the V share vector each party has persisted at shutdown equals, element
\* by element, the V share vector it loaded.
C13_ZeroQueryRun ==
    \A p \in Party :
        (files[p].queries = <<>> /\ exit[p].ended)
            => /\ saved[p].written
               /\ saved[p].shares = files[p].V

\* A party given an empty query list has ended with its V loaded.
C13_EmptyListEnded ==
    /\ files[0].queries = <<>>
    /\ exit[0].ended
    /\ V[0] = files[0].V
    /\ V[0] # <<>>


\* C14: conversion leakage.  In convert_xor_to_additive the total a party
\* reconstructs from the exchanged sums (sum_local + sum_peer) equals the
\* Hamming weight of the shared indicator: it is 1 for every key pair with
\* value 1 and every secret location, so the total does not depend on the
\* location.
C14_TotalIsHammingWeight ==
    \A p \in Party :
        (party[p].phase = "b2a" /\ party[p].pc = "done") => party[p].total = 1

\* Both parties finished the conversion of the eval_full outputs of a
\* generated key pair of the largest domain and hold the total -1.
C14_NegativeTotal ==
    /\ party[0].phase = "b2a" /\ party[0].pc = "done" /\ party[1].pc = "done"
    /\ Len(party[0].xor) = Pow2(MaxDepth)
    /\ party[0].total = 0 - 1
    /\ party[1].total = 0 - 1
    /\ \A i \in 1 .. Len(party[0].xor) :
          BitXor(party[0].xor[i], party[1].xor[i]) \in {0, 1}

(***************************************************************************)
(* The argument checks of generate and eval, A3/dpf.hpp (the same checks   *)
(* guard generateDPF_ and evalDPF_ of A2/gen_queries.cpp): calls with      *)
(* arbitrary sizes, locations and indices.                                 *)
(***************************************************************************)
\* Mutation of generate_checks: a location equal to size is let through.
GenerateChecksLocationAtSize(size, location) ==
    IF ~is_power_of_two(size) THEN "invalid_argument"
    ELSE IF location > size THEN "invalid_argument"
    ELSE "none"

\* The two throw statements at the top of generate.
generate_checks(size, location) ==
    IF ~is_power_of_two(size) THEN "invalid_argument"
    ELSE IF location >= size THEN "invalid_argument"
    ELSE "none"

\* The throw statement at the top of eval.
eval_check(key, index) == IF index >= key.size THEN "out_of_range" ELSE "none"

\* Sizes handed to generate: 0, the powers of two and what lies between
\* and just beyond them.
ArgSizes == 0 .. (Pow2(MaxDepth) + 1)

ArgSeeds == {1, MODULUS - 2}

ArgInit ==
    /\ \E id \in 0 .. (NumPrg - 1), size \in ArgSizes, s0 \in ArgSeeds,
          s1 \in ArgSeeds :
         \E location \in 0 .. (size + 1) :
            dpf = [pc |-> "generate", id |-> id, size |-> size,
                   location |-> location, value |-> 1, s0 |-> s0, s1 |-> s1,
                   keys |-> NoKeys, error |-> "none", index |-> 0,
                   out0 |-> <<>>, out1 |-> <<>>]
    /\ exit = NoExit
    /\ NoParties
    /\ NoData
    /\ NoDealer

\* generate(size, location, value, rng): throws or returns the key pair.
ArgGenerate ==
    /\ dpf.pc = "generate"
    /\ LET e == generate_checks(dpf.size, dpf.location)
       IN  dpf' = IF e # "none"
                  THEN [dpf EXCEPT !.pc = "threw", !.error = e]
                  ELSE [dpf EXCEPT
                          !.keys = generate(dpf.id, dpf.size, dpf.location,
                                            dpf.value, dpf.s0, dpf.s1),
                          !.pc = "eval"]
    /\ UNCHANGED <<exit, party, chanVars, dataVars, dealerVars>>

\* eval(k0, index) and eval(k1, index) for an arbitrary index: throws or
\* returns the two values.
ArgEval ==
    /\ dpf.pc = "eval"
    /\ \E index \in 0 .. (dpf.size + 1) :
          LET e == eval_check(dpf.keys.k0, index)
          IN  dpf' = IF e # "none"
                     THEN [dpf EXCEPT !.pc = "eval_threw", !.error = e,
                                      !.index = index]
                     ELSE [dpf EXCEPT
                             !.pc = "returned", !.index = index,
                             !.out0 = <<eval(dpf.id, dpf.keys.k0, index)>>,
                             !.out1 = <<eval(dpf.id, dpf.keys.k1, index)>>]
    /\ UNCHANGED <<exit, party, chanVars, dataVars, dealerVars>>

ArgNext == ArgGenerate \/ ArgEval

SpecDPFArgs == ArgInit /\ [][ArgNext]_vars

\* C15: DPF argument errors.  generate fails with an invalid-argument error
\* and returns no keys when size is 0 or not a power of two and when
\* location >= size; eval fails with an out-of-range error when index >=
\* key.size; in every other case each returns a value.
C15_DpfArgumentErrors ==
    LET badSize == dpf.size \notin {Pow2(d) : d \in 0 .. (MaxDepth + 1)}
        badLocation == dpf.location >= dpf.size
    IN  /\ dpf.pc = "threw"
            => /\ badSize \/ badLocation
               /\ dpf.error = "invalid_argument"
               /\ dpf.keys = NoKeys
        /\ dpf.pc \in {"eval", "eval_threw", "returned"}
            => /\ ~badSize /\ ~badLocation
               /\ dpf.keys # NoKeys
               /\ dpf.keys.k0.size = dpf.size
        /\ dpf.pc = "eval_threw"
            => /\ dpf.index >= dpf.size
               /\ dpf.error = "out_of_range"
               /\ dpf.out0 = <<>> /\ dpf.out1 = <<>>
        /\ dpf.pc = "returned"
            => /\ dpf.index < dpf.size
               /\ dpf.error = "none"
               /\ dpf.out0[1] \in Word64 /\ dpf.out1[1] \in Word64

\* generate refused a power-of-two size because location = size.
C15_Witness ==
    /\ dpf.pc = "threw"
    /\ dpf.size = Pow2(MaxDepth)
    /\ dpf.location = dpf.size
    /\ dpf.error = "invalid_argument"

\* Reached as well: size 0, a size between two powers of two with a valid
\* location, and eval refusing index = size.
C15_WitnessOthers ==
    \/ dpf.pc = "threw" /\ dpf.size = 0
    \/ dpf.pc = "threw" /\ dpf.size > 1 /\ ~is_power_of_two(dpf.size) /\ dpf.location = 1
    \/ dpf.pc = "eval_threw" /\ dpf.index = dpf.size


\* C16: key-pair structure.  Every pair returned by generate(size, location,
\* value) has identical cw_seed, cw_tL, cw_tR, cw_out, size and depth in k0
\* and k1, with size = 2^depth and each correction vector of length depth;
\* root_t0 is the least significant bit of root_seed0 and root_t0 XOR
\* root_t1 = 1.
C16_KeyPairStructure ==
    dpf.pc \in {"eval", "done"} =>
        LET k0 == dpf.keys.k0
            k1 == dpf.keys.k1
        IN  /\ k0.cw_seed = k1.cw_seed
            /\ k0.cw_tL = k1.cw_tL
            /\ k0.cw_tR = k1.cw_tR
            /\ k0.cw_out = k1.cw_out
            /\ k0.size = k1.size /\ k0.size = dpf.size
            /\ k0.depth = k1.depth
            /\ k0.size = Pow2(k0.depth)
            /\ Len(k0.cw_seed) = k0.depth
            /\ Len(k0.cw_tL) = k0.depth
            /\ Len(k0.cw_tR) = k0.depth
            /\ k0.rootSeed = dpf.s0 /\ k1.rootSeed = dpf.s1
            /\ k0.rootT = k0.rootSeed % 2
            /\ BitXor(k0.rootT, k1.rootT) = 1

\* A generated pair of the largest depth with an odd first root seed, root
\* seeds that differ and correction words that are not all zero.
C16_Witness ==
    /\ dpf.pc = "eval"
    /\ dpf.keys.k0.depth = MaxDepth
    /\ dpf.keys.k0.rootT = 1
    /\ dpf.keys.k1.rootSeed % 2 = 1
    /\ dpf.keys.k0.rootSeed # dpf.keys.k1.rootSeed
    /\ dpf.keys.k0.cw_out # 0
    /\ \E l \in 1 .. MaxDepth : dpf.keys.k0.cw_seed[l] # 0
    /\ \E l \in 1 .. MaxDepth : dpf.keys.k0.cw_tL[l] # dpf.keys.k0.cw_tR[l]


(***************************************************************************)
(* Text format of keys and query files: serialize_key_text and             *)
(* deserialize_key_text of A3/dpf.hpp, write_queries of                    *)
(* A3/gen_queries.cpp and load_queries of A3/server.cpp.  A file is the    *)
(* sequence of its characters.  A Seed256 is one word here, so a seed line *)
(* holds one number.                                                       *)
(***************************************************************************)
DigitChars == <<"0", "1", "2", "3", "4", "5", "6", "7", "8", "9">>

\* operator<< of an unsigned integer: its decimal digits.
RECURSIVE Decimal(_)
Decimal(n) ==
    IF n < 10 THEN <<DigitChars[n + 1]>>
    ELSE Decimal(n \div 10) \o <<DigitChars[(n % 10) + 1]>>

\* The words of a seed, ' ' between them and a newline after the last.
SeedLine(seed) == Decimal(seed) \o <<"\n">>

RECURSIVE SeedLines(_, _)
SeedLines(seeds, level) ==
    IF level > Len(seeds) THEN <<>>
    ELSE SeedLine(seeds[level]) \o SeedLines(seeds, level + 1)

RECURSIVE BitsFrom(_, _, _)
BitsFrom(bits, level, sep) ==
    IF level > Len(bits) THEN <<>>
    ELSE Decimal(bits[level])
           \o (IF level < Len(bits) THEN sep ELSE <<>>)
           \o BitsFrom(bits, level + 1, sep)

\* Mutation of BitLine: no ' ' is written between the bits.
BitLineNoSeparator(bits) == BitsFrom(bits, 1, <<>>) \o <<"\n">>

\* The correction bits of all levels, ' ' between them, then a newline.
BitLine(bits) == BitsFrom(bits, 1, <<" ">>) \o <<"\n">>

serialize_key_text(key) ==
    Decimal(key.size) \o <<" ">> \o Decimal(key.depth) \o <<"\n">>
      \o SeedLine(key.rootSeed)
      \o Decimal(key.rootT) \o <<"\n">>
      \o Decimal(key.cw_out) \o <<"\n">>
      \o SeedLines(key.cw_seed, 1)
      \o BitLine(key.cw_tL)
      \o BitLine(key.cw_tR)

\* operator>> of an integer: leading whitespace is skipped, then the digits
\* are read; it fails when there is no digit or the value does not fit the
\* type (values below limit fit).
IsSpace(c) == c \in {" ", "\n"}

IsDigit(c) == \E d \in 1 .. 10 : DigitChars[d] = c

DigitValue(c) == (CHOOSE d \in 1 .. 10 : DigitChars[d] = c) - 1

RECURSIVE SkipSpace(_, _)
SkipSpace(text, pos) ==
    IF pos <= Len(text) /\ IsSpace(text[pos]) THEN SkipSpace(text, pos + 1) ELSE pos

RECURSIVE ReadDigits(_, _, _)
ReadDigits(text, pos, acc) ==
    IF pos <= Len(text) /\ IsDigit(text[pos])
    THEN ReadDigits(text, pos + 1, acc * 10 + DigitValue(text[pos]))
    ELSE [val |-> acc, pos |-> pos]

Extract(text, pos, limit) ==
    LET start == SkipSpace(text, pos)
        r == ReadDigits(text, start, 0)
    IN  IF r.pos = start \/ r.val >= limit
        THEN [ok |-> FALSE, val |-> 0, pos |-> r.pos]
        ELSE [ok |-> TRUE, val |-> r.val, pos |-> r.pos]

\* n extractions in a row, as the loops of deserialize_key_text make them;
\* each value is reduced by mask (bit & 1 for the correction bits).
RECURSIVE ExtractMany(_, _, _, _, _, _)
ExtractMany(text, pos, n, limit, mask, acc) ==
    IF n = 0 THEN [ok |-> TRUE, vals |-> acc, pos |-> pos]
    ELSE LET e == Extract(text, pos, limit)
         IN  IF ~e.ok THEN [ok |-> FALSE, vals |-> acc, pos |-> e.pos]
             ELSE ExtractMany(text, e.pos, n - 1, limit, mask,
                              Append(acc, e.val % mask))

\* Limits of the types read: uint32_t, uint64_t / size_t, int.
UInt32Limit == MODULUS
UInt64Limit == Carrier
IntLimit == MODULUS \div 2

NoKey ==
    [rootSeed |-> 0, rootT |-> 0, cw_seed |-> <<>>, cw_tL |-> <<>>,
     cw_tR |-> <<>>, cw_out |-> 0, size |-> 0, depth |-> 0]

\* deserialize_key_text(in, key) reading from position pos.
deserialize_key_text(text, pos) ==
    LET size == Extract(text, pos, UInt64Limit)
        depth == Extract(text, size.pos, IntLimit)
        root == Extract(text, depth.pos, UInt32Limit)
        rootT32 == Extract(text, root.pos, UInt32Limit)
        cw_out == Extract(text, rootT32.pos, UInt64Limit)
        seeds == ExtractMany(text, cw_out.pos, depth.val, UInt32Limit,
                             UInt32Limit, <<>>)
        tL == ExtractMany(text, seeds.pos, depth.val, IntLimit, 2, <<>>)
        tR == ExtractMany(text, tL.pos, depth.val, IntLimit, 2, <<>>)
    IN  IF /\ size.ok /\ depth.ok /\ root.ok /\ rootT32.ok /\ cw_out.ok
           /\ seeds.ok /\ tL.ok /\ tR.ok
        THEN [ok |-> TRUE, pos |-> tR.pos,
              key |-> [rootSeed |-> root.val, rootT |-> rootT32.val % 256,
                       cw_seed |-> seeds.vals, cw_tL |-> tL.vals,
                       cw_tR |-> tR.vals, cw_out |-> cw_out.val,
                       size |-> size.val, depth |-> depth.val]]
        ELSE [ok |-> FALSE, pos |-> pos, key |-> NoKey]

RECURSIVE WriteRecords(_, _)
WriteRecords(records, n) ==
    IF n > Len(records) THEN <<>>
    ELSE Decimal(records[n].user_id) \o <<"\n">>
           \o serialize_key_text(records[n].key) \o <<"\n">>
           \o WriteRecords(records, n + 1)

\* write_queries(filename, queries, domain_size): the text of the file.
write_queries(records, domain_size) ==
    Decimal(Len(records) % UInt32Limit) \o <<" ">> \o Decimal(domain_size)
      \o <<"\n">> \o WriteRecords(records, 1)

RECURSIVE LoadRecords(_, _, _, _)
LoadRecords(text, pos, left, acc) ==
    IF left = 0 THEN acc
    ELSE LET uid == Extract(text, pos, UInt32Limit)
             k == deserialize_key_text(text, uid.pos)
         IN  IF ~uid.ok \/ ~k.ok THEN <<>>
             ELSE LoadRecords(text, k.pos, left - 1,
                              Append(acc, [user_id |-> uid.val, key |-> k.key]))

\* load_queries(filename, expected_domain): the list read from the text; a
\* domain other than the expected one only prints a warning.
load_queries(text, expected_domain) ==
    LET count == Extract(text, 1, UInt32Limit)
        domain == Extract(text, count.pos, UInt64Limit)
    IN  IF ~count.ok \/ ~domain.ok THEN <<>>
        ELSE LoadRecords(text, domain.pos, count.val, <<>>)

(***************************************************************************)
(* The round trip: gen_queries writes the two query files from generated   *)
(* key pairs, each compute party reads its file back.                      *)
(***************************************************************************)
\* Samples of generated queries: user, domain, location and root seeds.
SerialSamples ==
    {[user_id |-> 0, size |-> 1, loc |-> 0, s0 |-> 1, s1 |-> MODULUS - 2],
     [user_id |-> MODULUS - 1, size |-> 2, loc |-> 1, s0 |-> MODULUS - 1, s1 |-> 0],
     [user_id |-> 1, size |-> Pow2(MaxDepth), loc |-> 1, s0 |-> 2, s1 |-> 5],
     [user_id |-> 1, size |-> Pow2(MaxDepth), loc |-> Pow2(MaxDepth) - 1,
      s0 |-> MODULUS - 3, s1 |-> 3]}

SerialValues == {1, Carrier - 1}

SerialLists == UNION {[1 .. n -> SerialSamples] : n \in 0 .. MaxQueries}

SerialInit ==
    /\ \E id \in 0 .. (NumPrg - 1), ql \in SerialLists, value \in SerialValues :
          queries = [p \in Party |->
              [n \in 1 .. Len(ql) |->
                  LET keys == generate(id, ql[n].size, ql[n].loc, value,
                                       ql[n].s0, ql[n].s1)
                  IN  [user_id |-> ql[n].user_id,
                       key |-> IF p = 0 THEN keys.k0 ELSE keys.k1]]]
    /\ files = [p \in Party |-> [text |-> <<>>, loaded |-> <<>>]]
    /\ party = [p \in Party |-> [IdleParty EXCEPT !.pc = "write"]]
    /\ config = [num_users |-> MODULUS, num_items |-> Pow2(MaxDepth), prg |-> 0]
    /\ U = EmptyChans
    /\ V = EmptyChans
    /\ saved = [p \in Party |-> NotSaved]
    /\ peerChan = EmptyChans
    /\ toP2 = EmptyChans
    /\ fromP2 = EmptyChans
    /\ dpf = NoDpf
    /\ exit = NoExit
    /\ NoDealer

\* gen_queries: write_queries("data/queries_p<p>.txt", queries_p<p>, num_items).
SerialWrite(p) ==
    /\ party[p].pc = "write"
    /\ files' = [files EXCEPT
                   ![p].text = write_queries(queries[p], config.num_items)]
    /\ party' = [party EXCEPT ![p].pc = "load"]
    /\ UNCHANGED <<dpf, exit, config, U, V, queries, saved, dealerVars, chanVars>>

\* server: load_queries("data/queries_p<p>.txt", config.num_items).
SerialLoad(p) ==
    /\ party[p].pc = "load"
    /\ files' = [files EXCEPT
                   ![p].loaded = load_queries(files[p].text, config.num_items)]
    /\ party' = [party EXCEPT ![p].pc = "loaded"]
    /\ UNCHANGED <<dpf, exit, config, U, V, queries, saved, dealerVars, chanVars>>

SerialNext == \E p \in Party : SerialWrite(p) \/ SerialLoad(p)

SpecSerial == SerialInit /\ [][SerialNext]_vars

\* C17: key serialisation round trip (text format).  For every key K produced
\* by generate, of every depth >= 0, deserialize_key_text(
\* serialize_key_text(K)) succeeds and yields a key equal to K in every
\* field, so eval of the reloaded key equals eval of K at every index; a
\* query file written by write_queries is read back by load_queries as the
\* same sequence of (user_id, key) records.
C17_SerializeRoundTrip ==
    \A p \in Party :
        /\ \A n \in 1 .. Len(queries[p]) :
              LET K == queries[p][n].key
                  r == deserialize_key_text(serialize_key_text(K), 1)
              IN  /\ r.ok
                  /\ r.key = K
                  /\ \A id \in 0 .. (NumPrg - 1) :
                        eval_full(id, r.key) = eval_full(id, K)
        /\ party[p].pc = "loaded" => files[p].loaded = queries[p]

\* A file of two records, the first of depth 0 and the second of the
\* largest depth, was written and read back, and the text is longer than
\* the fields it carries.
C17_Witness ==
    /\ party[0].pc = "loaded"
    /\ Len(queries[0]) >= 2
    /\ queries[0][1].key.depth = 0
    /\ queries[0][2].key.depth = MaxDepth
    /\ queries[0][2].key.cw_tL # queries[0][2].key.cw_tR
    /\ Len(files[0].loaded) = Len(queries[0])
    /\ Len(files[0].text) > 20
    /\ files[0].text # files[1].text


(***************************************************************************)
(* Field arithmetic on its own: Field::add, sub and mul of A3/common.hpp   *)
(* and A1/shares.hpp applied to arbitrary carrier values.                  *)
(***************************************************************************)
FieldOps == {"add", "sub", "mul"}

\* The value Field::<op>(a, b) returns, in A3 and in A1.
FieldApply(op, a, b) ==
    CASE op = "add" -> [a3 |-> FieldAdd(a, b), a1 |-> FieldAdd(a, b)]
      [] op = "sub" -> [a3 |-> FieldSub(a, b), a1 |-> A1FieldSub(a, b)]
      [] op = "mul" -> [a3 |-> FieldMul(a, b), a1 |-> FieldMul(a, b)]

NormInit ==
    /\ \E a \in Word64, b \in Word64 :
          dpf = [pc |-> "call", a |-> a, b |-> b, op |-> "none", r |-> 0, r1 |-> 0]
    /\ exit = NoExit
    /\ NoParties
    /\ NoData
    /\ NoDealer

NormCall(op) ==
    /\ dpf.pc = "call"
    /\ dpf' = [dpf EXCEPT !.pc = "returned", !.op = op,
                          !.r = FieldApply(op, dpf.a, dpf.b).a3,
                          !.r1 = FieldApply(op, dpf.a, dpf.b).a1]
    /\ UNCHANGED <<exit, party, chanVars, dataVars, dealerVars>>

NormNext == \E op \in FieldOps : NormCall(op)

SpecFieldNorm == NormInit /\ [][NormNext]_vars

\* C18: field normalisation.  For all carrier values a and b, also those at
\* or above MODULUS and those whose sum, difference or product wraps around
\* the carrier, Field::add, Field::sub and Field::mul return exactly
\* (a + b) mod MODULUS, (a - b) mod MODULUS and (a * b) mod MODULUS, always
\* inside the field; mul(MODULUS - 1, 2) = MODULUS - 2.
C18_FieldNormalisation ==
    dpf.pc = "returned" =>
        LET exact == CASE dpf.op = "add" -> (dpf.a + dpf.b) % MODULUS
                       [] dpf.op = "sub" -> (dpf.a - dpf.b) % MODULUS
                       [] dpf.op = "mul" -> (dpf.a * dpf.b) % MODULUS
        IN  /\ dpf.r = exact
            /\ dpf.r1 = exact
            /\ dpf.r \in Word32
            /\ (dpf.op = "mul" /\ dpf.a = MODULUS - 1 /\ dpf.b = 2)
                  => dpf.r = MODULUS - 2

\* A product of two carrier values above the field that wraps around the
\* carrier and is not a multiple of MODULUS.
C18_Witness ==
    /\ dpf.pc = "returned"
    /\ dpf.op = "mul"
    /\ dpf.a >= MODULUS /\ dpf.b >= MODULUS
    /\ dpf.a * dpf.b >= Carrier
    /\ dpf.r # 0

\* Reached as well: the example of the claim, a wrapping sum and a
\* difference with b above a and above MODULUS.
C18_WitnessOthers ==
    \/ dpf.pc = "returned" /\ dpf.op = "mul" /\ dpf.a = MODULUS - 1 /\ dpf.b = 2
    \/ dpf.pc = "returned" /\ dpf.op = "add" /\ dpf.a + dpf.b >= Carrier
    \/ dpf.pc = "returned" /\ dpf.op = "sub" /\ dpf.b > dpf.a /\ dpf.b >= MODULUS

(***************************************************************************)
(* The ring laws of Field::add, sub and mul on field elements.             *)
(***************************************************************************)
FieldLaws ==
    {"add_assoc", "add_comm", "mul_assoc", "mul_comm", "distrib", "sub_neg",
     "add_zero", "mul_one"}

\* The two sides of a law, computed with the Field functions.
LawSides(law, a, b, c) ==
    CASE law = "add_assoc" ->
            [lhs |-> FieldAdd(FieldAdd(a, b), c), rhs |-> FieldAdd(a, FieldAdd(b, c))]
      [] law = "add_comm" -> [lhs |-> FieldAdd(a, b), rhs |-> FieldAdd(b, a)]
      [] law = "mul_assoc" ->
            [lhs |-> FieldMul(FieldMul(a, b), c), rhs |-> FieldMul(a, FieldMul(b, c))]
      [] law = "mul_comm" -> [lhs |-> FieldMul(a, b), rhs |-> FieldMul(b, a)]
      [] law = "distrib" ->
            [lhs |-> FieldMul(a, FieldAdd(b, c)),
             rhs |-> FieldAdd(FieldMul(a, b), FieldMul(a, c))]
      [] law = "sub_neg" ->
            [lhs |-> FieldSub(a, b), rhs |-> FieldAdd(a, FieldSub(0, b))]
      [] law = "add_zero" -> [lhs |-> FieldAdd(a, 0), rhs |-> a]
      [] law = "mul_one" -> [lhs |-> FieldMul(a, 1), rhs |-> a]

LawsInit ==
    /\ \E a \in Word32, b \in Word32, c \in Word32 :
          dpf = [pc |-> "call", a |-> a, b |-> b, c |-> c, law |-> "none",
                 lhs |-> 0, rhs |-> 0]
    /\ exit = NoExit
    /\ NoParties
    /\ NoData
    /\ NoDealer

LawsCall(law) ==
    /\ dpf.pc = "call"
    /\ dpf' = [dpf EXCEPT !.pc = "returned", !.law = law,
                          !.lhs = LawSides(law, dpf.a, dpf.b, dpf.c).lhs,
                          !.rhs = LawSides(law, dpf.a, dpf.b, dpf.c).rhs]
    /\ UNCHANGED <<exit, party, chanVars, dataVars, dealerVars>>

LawsNext == \E law \in FieldLaws : LawsCall(law)

SpecFieldLaws == LawsInit /\ [][LawsNext]_vars

\* C19: field laws.  For all a, b, c in the field, Field::add and Field::mul
\* are associative and commutative, mul distributes over add, sub(a, b) =
\* add(a, sub(0, b)), add(a, 0) = a and mul(a, 1) = a.
C19_FieldLaws ==
    dpf.pc = "returned" => (dpf.lhs = dpf.rhs /\ dpf.lhs \in Word32)

\* Distributivity was evaluated where b + c and a * b both leave the field.
C19_Witness ==
    /\ dpf.pc = "returned"
    /\ dpf.law = "distrib"
    /\ dpf.b + dpf.c >= MODULUS
    /\ dpf.a * dpf.b >= MODULUS
    /\ dpf.lhs # 0

(***************************************************************************)
(* Field::from_signed and Field::to_signed, A3/common.hpp.                 *)
(***************************************************************************)
\* int64_t values.
Int64 == (0 - (Carrier \div 2)) .. ((Carrier \div 2) - 1)

SignedInit ==
    /\ \E x \in Int64, v \in Word64 :
          dpf = [pc |-> "call", x |-> x, v |-> v, fn |-> "none", r |-> 0, back |-> 0]
    /\ exit = NoExit
    /\ NoParties
    /\ NoData
    /\ NoDealer

\* from_signed(x), then to_signed of the result.
SignedFromCall ==
    /\ dpf.pc = "call"
    /\ dpf' = [dpf EXCEPT !.pc = "returned", !.fn = "from_signed",
                          !.r = from_signed(dpf.x),
                          !.back = to_signed(from_signed(dpf.x))]
    /\ UNCHANGED <<exit, party, chanVars, dataVars, dealerVars>>

\* to_signed(v), then from_signed of the result.
SignedToCall ==
    /\ dpf.pc = "call"
    /\ dpf' = [dpf EXCEPT !.pc = "returned", !.fn = "to_signed",
                          !.r = to_signed(dpf.v),
                          !.back = from_signed(to_signed(dpf.v))]
    /\ UNCHANGED <<exit, party, chanVars, dataVars, dealerVars>>

SignedNext == SignedFromCall \/ SignedToCall

SpecSigned == SignedInit /\ [][SignedNext]_vars

\* The int32_t values.
Int32 == (0 - (MODULUS \div 2)) .. ((MODULUS \div 2) - 1)

\* C20: signed conversion.  For every int64 x, from_signed(x) is the low
\* word of x's two's-complement representation, inside the field; for every
\* carrier v, to_signed(v) is the low word of v read as a two's-complement
\* int32; hence to_signed(from_signed(x)) = x for every x in the int32 range
\* and from_signed(to_signed(v)) = v mod MODULUS.
C20_SignedConversion ==
    /\ (dpf.pc = "returned" /\ dpf.fn = "from_signed")
          => /\ dpf.r \in Word32
             /\ \E k \in (0 - Carrier) .. Carrier : dpf.r = dpf.x + k * MODULUS
             /\ dpf.x \in Int32 => dpf.back = dpf.x
    /\ (dpf.pc = "returned" /\ dpf.fn = "to_signed")
          => /\ dpf.r \in Int32
             /\ \E k \in (0 - Carrier) .. Carrier : dpf.r = dpf.v + k * MODULUS
             /\ dpf.back = dpf.v % MODULUS

\* to_signed returned a negative value for a carrier above the field, and
\* the way back gave the low word.
C20_Witness ==
    /\ dpf.pc = "returned"
    /\ dpf.fn = "to_signed"
    /\ dpf.v >= MODULUS
    /\ dpf.r < 0
    /\ dpf.back = dpf.v - MODULUS * (dpf.v \div MODULUS)
    /\ dpf.back # dpf.v

\* Reached as well: from_signed of a negative int64 outside the int32 range.
C20_WitnessNegative ==
    /\ dpf.pc = "returned"
    /\ dpf.fn = "from_signed"
    /\ dpf.x < 0 - (MODULUS \div 2)
    /\ dpf.r # 0
    /\ dpf.back # dpf.x

(***************************************************************************)
(* Setup: the generators split a secret into two additive shares.          *)
(* A3/gen_queries.cpp splits every entry of U and V with Field::random and  *)
(* Field::sub; A1/gen_queries.cpp splits every entry of the one-hot vector  *)
(* e_j with small_share_dist(1, 5) and the Field::sub of A1/shares.hpp.     *)
(***************************************************************************)
\* Mutation of SplitA3: share1 is the secret itself.
SplitA3Unmasked(secret, share0) == [share0 |-> share0, share1 |-> secret]

\* One pass of the U / V loops of A3 gen_queries main.
SplitA3(secret, share0) == [share0 |-> share0, share1 |-> FieldSub(secret, share0)]

\* The inner loop of A1 gen_queries main for the query on item_id.
SplitA1(n, item_id, e_j0) ==
    LET e_j == [i \in 1 .. n |-> IF i = item_id + 1 THEN 1 ELSE 0]
    IN  [e_j |-> e_j, e_j0 |-> e_j0,
         e_j1 |-> [i \in 1 .. n |-> A1FieldSub(e_j[i], e_j0[i])]]

\* A draw of the generator: one pass of an A3 loop, or one A1 query.
SetupDraw(gen, secret, share0, item_id, e_j0) ==
    [pc |-> "draw", gen |-> gen, secret |-> secret, share0 |-> share0,
     item_id |-> item_id, e_j0 |-> e_j0,
     a3 |-> SplitA3(0, 0), a1 |-> SplitA1(0, 0, <<>>)]

SetupInit ==
    /\ \/ \E secret \in Word32, share0 \in Word32 :
             dpf = SetupDraw("A3", secret, share0, 0, <<>>)
       \/ \E item_id \in 0 .. NumItems - 1,
             e_j0 \in [1 .. NumItems -> 1 .. SmallRandomMax] :
             dpf = SetupDraw("A1", 0, 0, item_id, e_j0)
    /\ exit = NoExit
    /\ NoParties
    /\ NoData
    /\ NoDealer

SetupSplitA3 ==
    /\ dpf.pc = "draw"
    /\ dpf.gen = "A3"
    /\ dpf' = [dpf EXCEPT !.pc = "written", !.a3 = SplitA3(dpf.secret, dpf.share0)]
    /\ UNCHANGED <<exit, party, chanVars, dataVars, dealerVars>>

SetupSplitA1 ==
    /\ dpf.pc = "draw"
    /\ dpf.gen = "A1"
    /\ dpf' = [dpf EXCEPT !.pc = "written",
                          !.a1 = SplitA1(NumItems, dpf.item_id, dpf.e_j0)]
    /\ UNCHANGED <<exit, party, chanVars, dataVars, dealerVars>>

SetupNext == SetupSplitA3 \/ SetupSplitA1

SpecSetup == SetupInit /\ [][SetupNext]_vars

\* C21: share reconstruction at setup.  For every secret the generator
\* splits (an entry of U or V in A3, every entry of a one-hot query vector
\* e_j in A1), share0 + share1 = secret (mod MODULUS) and both written
\* shares lie in the field.
C21_ShareReconstruction ==
    /\ (dpf.pc = "written" /\ dpf.gen = "A3") =>
          /\ (dpf.a3.share0 + dpf.a3.share1) % MODULUS = dpf.secret
          /\ dpf.a3.share0 \in Word32
          /\ dpf.a3.share1 \in Word32
    /\ (dpf.pc = "written" /\ dpf.gen = "A1") =>
          \A i \in 1 .. NumItems :
              /\ (dpf.a1.e_j0[i] + dpf.a1.e_j1[i]) % MODULUS
                    = (IF i = dpf.item_id + 1 THEN 1 ELSE 0)
              /\ dpf.a1.e_j0[i] \in Word32
              /\ dpf.a1.e_j1[i] \in Word32

\* An A3 split whose share0 is above the secret, so that the subtraction
\* wraps around the field.
C21_Witness ==
    /\ dpf.pc = "written"
    /\ dpf.gen = "A3"
    /\ dpf.a3.share0 > dpf.secret
    /\ dpf.a3.share1 # dpf.secret

\* An A1 split of the vector of the last item: the unsigned difference
\* 0 - e_j0[i] wraps around the carrier off the item.
C21_WitnessA1 ==
    /\ dpf.pc = "written"
    /\ dpf.gen = "A1"
    /\ dpf.item_id = NumItems - 1
    /\ dpf.a1.e_j1[1] = MODULUS - dpf.a1.e_j0[1]
    /\ dpf.a1.e_j0[NumItems] > 1

(***************************************************************************)
(* PRG domain separation, A3/dpf.hpp.  prg_expand and prg_leaf run          *)
(* AES-128-CTR over zeros from the initial counter block (nonce[0],        *)
(* nonce[1], nonce[2], counterStart), so the first 16 keystream bytes are  *)
(* the encryption of that block.  AES under one key is a permutation of    *)
(* the blocks; it stands here as a keyed bijection of the scaled block     *)
(* space 0 .. Carrier - 1 (the word table of aes_ctr_word keeps only the   *)
(* determinism of the keystream, not its injectivity).  The seed's nonce   *)
(* words are one word, as in make_nonce.                                   *)
(***************************************************************************)
\* The iv of aes_ctr_words: the nonce in the low word, counterStart above it.
InitialBlock(nonce, counterStart) == nonce + MODULUS * counterStart

\* EVP_EncryptUpdate(zeros) on the first block: AES_key(iv) XOR 0.
AesFirstBlock(id, key, iv) ==
    ((2 * key + 1) * iv + KeyStreamTable[((key + id * 13) % 64) + 1]) % Carrier

Domains == <<DOMAIN_SL, DOMAIN_SR, DOMAIN_T, DOMAIN_OUT>>

NotRun == [iv |-> 0, out |-> 0, run |-> FALSE]

PrgInit ==
    /\ \E id \in 0 .. NumPrg - 1, key \in Word32, seed \in Word32 :
          dpf = [pc |-> "prg", id |-> id, key |-> key, seed |-> seed,
                 stream |-> [d \in 1 .. 4 |-> NotRun]]
    /\ exit = NoExit
    /\ NoParties
    /\ NoData
    /\ NoDealer

\* make_nonce and the first block of aes_ctr_words(key, nonce, 0, ...) for
\* the d-th domain constant.
PrgFirstBlock(d) ==
    /\ dpf.pc = "prg"
    /\ ~dpf.stream[d].run
    /\ LET iv == InitialBlock(make_nonce(dpf.seed, Domains[d]), 0)
       IN  dpf' = [dpf EXCEPT !.stream[d] =
                      [iv |-> iv, out |-> AesFirstBlock(dpf.id, dpf.key, iv),
                       run |-> TRUE]]
    /\ UNCHANGED <<exit, party, chanVars, dataVars, dealerVars>>

PrgNext == \E d \in 1 .. 4 : PrgFirstBlock(d)

SpecPrg == PrgInit /\ [][PrgNext]_vars

\* C22: PRG domain separation.  For every seed, the four initial counter
\* blocks built by make_nonce with DOMAIN_SL, DOMAIN_SR, DOMAIN_T and
\* DOMAIN_OUT under the same AES key are pairwise distinct, and so are the
\* first 16 bytes of the four keystreams.
C22_DomainSeparation ==
    \A d, e \in 1 .. 4 :
        (d # e /\ dpf.pc = "prg" /\ dpf.stream[d].run /\ dpf.stream[e].run) =>
            /\ dpf.stream[d].iv # dpf.stream[e].iv
            /\ dpf.stream[d].out # dpf.stream[e].out

\* All four keystreams were started from a seed whose nonce word has bits in
\* common with the domain constants.
C22_Witness ==
    /\ dpf.pc = "prg"
    /\ \A d \in 1 .. 4 : dpf.stream[d].run
    /\ BitAnd(dpf.seed, DOMAIN_T) # 0
    /\ dpf.key # 0

(***************************************************************************)
(* Dealer handshake, A3/p2.cpp main and A3/server.cpp connect_to_p2.  A    *)
(* connection is named by the process that opened it; role[c] is the field *)
(* element that process writes after connecting (0 for a ROLE_p0 build, 1   *)
(* otherwise).  The dealer accepts twice, reads one role after each accept *)
(* and hands the two sockets to the two handlers.                          *)
(***************************************************************************)
NoSocket == [open |-> FALSE, conn |-> 0]

Socket(c) == [open |-> TRUE, conn |-> c]

\* Mutation of AssignSockets: the sockets are handed out in arrival order.
AssignByArrival(role_first, first, second) ==
    [socket_p0 |-> first, socket_p1 |-> second]

\* p2 main, the two conditional moves.
AssignSockets(role_first, first, second) ==
    [socket_p0 |-> IF role_first = 0 THEN first ELSE second,
     socket_p1 |-> IF role_first = 0 THEN second ELSE first]

HandshakeInit ==
    /\ \E role \in [Party -> {0, 1}] :
          dpf = [pc |-> "accept_first", role |-> role, backlog |-> <<>>,
                 client |-> [c \in Party |-> "start"],
                 first |-> NoSocket, role_first |-> 0,
                 second |-> NoSocket, role_second |-> 0,
                 socket_p0 |-> NoSocket, socket_p1 |-> NoSocket]
    /\ exit = NoExit
    /\ NoParties
    /\ NoData
    /\ NoDealer

\* connect_to_p2: async_connect completes, the connection waits for accept.
HsConnect(c) ==
    /\ dpf.client[c] = "start"
    /\ dpf.pc \notin {"failed"}
    /\ dpf' = [dpf EXCEPT !.client[c] = "connected", !.backlog = Append(@, c)]
    /\ UNCHANGED <<exit, party, chanVars, dataVars, dealerVars>>

\* connect_to_p2: async_write of the role.
HsWriteRole(c) ==
    /\ dpf.client[c] = "connected"
    /\ dpf' = [dpf EXCEPT !.client[c] = "written"]
    /\ UNCHANGED <<exit, party, chanVars, dataVars, dealerVars>>

\* The process behind connection c dies before it wrote its role.
HsClose(c) ==
    /\ dpf.client[c] = "connected"
    /\ dpf' = [dpf EXCEPT !.client[c] = "closed"]
    /\ UNCHANGED <<exit, party, chanVars, dataVars, dealerVars>>

P2Accept ==
    /\ dpf.pc \in {"accept_first", "accept_second"}
    /\ dpf.backlog # <<>>
    /\ dpf' = IF dpf.pc = "accept_first"
              THEN [dpf EXCEPT !.pc = "read_first",
                               !.first = Socket(Head(dpf.backlog)),
                               !.backlog = Tail(@)]
              ELSE [dpf EXCEPT !.pc = "read_second",
                               !.second = Socket(Head(dpf.backlog)),
                               !.backlog = Tail(@)]
    /\ UNCHANGED <<exit, party, chanVars, dataVars, dealerVars>>

\* boost::asio::read of the role on the socket just accepted; after the
\* second one the sockets are assigned and the two handlers spawned.  A
\* closed connection makes read throw, and main returns 1.
P2ReadRole ==
    /\ dpf.pc \in {"read_first", "read_second"}
    /\ LET c == IF dpf.pc = "read_first" THEN dpf.first.conn ELSE dpf.second.conn
       IN  /\ dpf.client[c] \in {"written", "closed"}
           /\ IF dpf.client[c] = "closed"
              THEN /\ dpf' = [dpf EXCEPT !.pc = "failed"]
                   /\ exit' = [exit EXCEPT ![2] = [ended |-> TRUE,
                                                   status |-> p2_main(TRUE)]]
              ELSE /\ exit' = exit
                   /\ dpf' =
                        IF dpf.pc = "read_first"
                        THEN [dpf EXCEPT !.pc = "accept_second",
                                         !.role_first = dpf.role[c]]
                        ELSE LET s == AssignSockets(dpf.role_first, dpf.first,
                                                    dpf.second)
                             IN  [dpf EXCEPT !.pc = "serving",
                                             !.role_second = dpf.role[c],
                                             !.first = NoSocket,
                                             !.second = NoSocket,
                                             !.socket_p0 = s.socket_p0,
                                             !.socket_p1 = s.socket_p1]
    /\ UNCHANGED <<party, chanVars, dataVars, dealerVars>>

HandshakeNext ==
    \/ \E c \in Party : HsConnect(c) \/ HsWriteRole(c) \/ HsClose(c)
    \/ P2Accept
    \/ P2ReadRole

SpecHandshake == HandshakeInit /\ [][HandshakeNext]_vars

\* C23: dealer handshake.  For both arrival orders, when one connection
\* declares role 0 and the other role 1, handle_client(.., true) runs on the
\* connection that declared 0 and handle_client(.., false) on the one that
\* declared 1.
C23_DealerHandshake ==
    (dpf.pc = "serving" /\ dpf.role[0] # dpf.role[1]) =>
        /\ dpf.socket_p0.open /\ dpf.role[dpf.socket_p0.conn] = 0
        /\ dpf.socket_p1.open /\ dpf.role[dpf.socket_p1.conn] = 1
        /\ dpf.socket_p0.conn # dpf.socket_p1.conn

\* The handlers run after the connection declaring 1 arrived first.
C23_Witness ==
    /\ dpf.pc = "serving"
    /\ dpf.role[0] # dpf.role[1]
    /\ dpf.role_first = 1
    /\ dpf.role_second = 0

\* The handlers run after the connection declaring 0 arrived first.
C23_WitnessInOrder ==
    /\ dpf.pc = "serving"
    /\ dpf.role[0] # dpf.role[1]
    /\ dpf.role_first = 0

(***************************************************************************)
(* Eviction of bundles at the A3 dealer (A3/p2.cpp:79-83).                 *)
(***************************************************************************)
\* Bundle id is in the queue of dimension d.
Queued(q, d, id) == \E n \in 1 .. Len(q[d]) : q[d][n] = id

\* handle_client for p is inside the loop iteration in which it serves id.
Serving(p, id) == handler[p].pc = "send" /\ handler[p].bundle = id

\* The step completes the loop iteration of handle_client for p.
FinishesIteration(p) == handler[p].pc = "send" /\ handler'[p].pc = "read"

\* C24: bundle eviction at the A3 dealer.  Under every interleaving of the
\* two handlers a bundle is removed from its per-dimension queue exactly
\* once, only after both served_p0 and served_p1 are set, and no later than
\* the moment both handlers have finished the loop iteration in which they
\* served it; a handler never removes a bundle other than the one it just
\* served, and never pops an empty queue.
C24_BundleEviction ==
    /\ [](\A id \in 1 .. Len(bundles) :
            LET b == bundles[id]
            IN  \* queued at most once, and gone once both handlers are past it
                /\ \A m, n \in 1 .. Len(pending_by_dim[b.dim]) :
                      (pending_by_dim[b.dim][m] = id /\ pending_by_dim[b.dim][n] = id)
                          => m = n
                /\ (b.served_p0 /\ b.served_p1 /\ ~Serving(0, id) /\ ~Serving(1, id))
                      => ~Queued(pending_by_dim, b.dim, id))
    /\ [][\A d \in DOMAIN pending_by_dim :
            \* the queue is left alone, grows by a new bundle at the back, or
            \* loses its front
            /\ \/ pending_by_dim'[d] = pending_by_dim[d]
               \/ /\ pending_by_dim'[d] = Append(pending_by_dim[d], Len(bundles) + 1)
                  /\ Len(bundles') = Len(bundles) + 1
               \/ /\ pending_by_dim[d] # <<>>
                  /\ pending_by_dim'[d] = Tail(pending_by_dim[d])
                  /\ bundles[Head(pending_by_dim[d])].served_p0
                  /\ bundles[Head(pending_by_dim[d])].served_p1
                  /\ \E p \in Party :
                        /\ FinishesIteration(p)
                        /\ handler[p].bundle = Head(pending_by_dim[d])
            \* a bundle that left its queue never comes back
            /\ \A id \in 1 .. Len(bundles) :
                  ~Queued(pending_by_dim, d, id) => ~Queued(pending_by_dim', d, id)
       ]_vars

\* The handler that finished first has evicted a bundle which the other
\* handler is still sending, and a new bundle of the same dimension is
\* already at the front of the queue.
C24_Witness ==
    \E p \in Party :
        /\ handler[p].pc = "send"
        /\ bundles[handler[p].bundle].served_p0
        /\ bundles[handler[p].bundle].served_p1
        /\ ~Queued(pending_by_dim, handler[p].dim, handler[p].bundle)
        /\ pending_by_dim[handler[p].dim] # <<>>
        /\ handler[p].idx = 1 + 2 * handler[p].dim

(***************************************************************************)
(* The dealer with request sequences that may differ between P0 and P1.    *)
(***************************************************************************)
\* Request sequences of these runs: one request fewer than MaxReq, every
\* pair of sequences.
AnyReqSeqs == [1 .. MaxReq - 1 -> DealerDims]

DealerAnyInit ==
    /\ \E reqs \in [Party -> AnyReqSeqs] :
          /\ party = [p \in Party |->
                [IdleParty EXCEPT !.pc = "sdp_req", !.phase = "prep",
                                  !.reqs = reqs[p],
                                  !.a = [j \in 1 .. Head(reqs[p]) |-> 0],
                                  !.b = [j \in 1 .. Head(reqs[p]) |-> 0]]]
          /\ DealerStart(0, DealerDims)
    /\ peerChan = EmptyChans
    /\ toP2 = EmptyChans
    /\ fromP2 = EmptyChans
    /\ dpf = NoDpf
    /\ exit = NoExit
    /\ NoData

SpecDealerAny == DealerAnyInit /\ [][DealerNext]_vars

\* served_p0 / served_p1 of bundle b, by party.
ServedFlag(b, p) == IF p = 0 THEN b.served_p0 ELSE b.served_p1

\* Bundle id was chosen for some request of party p.
Delivered(p, id) == \E n \in 1 .. Len(handler[p].log) : handler[p].log[n] = id

\* C30: single service per party.  For all request sequences of the two
\* parties, also sequences that differ between them, and all interleavings,
\* every bundle is created by exactly one handler, is delivered to at most
\* one request of P0 and at most one request of P1, and the selection of the
\* bundle together with setting the served flag happens with no suspension
\* point in between.
C30_SingleService ==
    /\ [](\A p \in Party :
            \* at most one request of p got a given bundle
            /\ \A m, n \in 1 .. Len(handler[p].log) :
                  handler[p].log[m] = handler[p].log[n] => m = n
            \* the flag of p is set exactly on the bundles chosen for p
            /\ \A id \in 1 .. Len(bundles) :
                  ServedFlag(bundles[id], p) <=> Delivered(p, id))
    /\ [][/\ \* a new bundle comes from one handler, which serves it at once
             Len(bundles') # Len(bundles) =>
                /\ Len(bundles') = Len(bundles) + 1
                /\ \E p \in Party :
                      /\ handler'[p].log = Append(handler[p].log, Len(bundles'))
                      /\ handler'[Other(p)] = handler[Other(p)]
                      /\ ServedFlag(bundles'[Len(bundles')], p)
                      /\ ~ServedFlag(bundles'[Len(bundles')], Other(p))
          /\ \* choosing a bundle and setting the flag are one step
             \A p \in Party :
                handler'[p].log # handler[p].log =>
                   /\ handler'[p].log = Append(handler[p].log, handler'[p].bundle)
                   /\ ServedFlag(bundles'[handler'[p].bundle], p)
                   /\ handler'[p].bundle <= Len(bundles) =>
                         ~ServedFlag(bundles[handler'[p].bundle], p)
          /\ \* a flag once set stays set, and nothing else of a bundle changes
             \A id \in 1 .. Len(bundles) :
                /\ [bundles'[id] EXCEPT !.served_p0 = TRUE, !.served_p1 = TRUE]
                      = [bundles[id] EXCEPT !.served_p0 = TRUE, !.served_p1 = TRUE]
                /\ \A p \in Party :
                      ServedFlag(bundles[id], p) => ServedFlag(bundles'[id], p)
       ]_vars

\* Both parties are done after request sequences that differ: P0 asked twice
\* for one dimension before P1 asked for it once, the first bundle went to
\* both of them and the second one, created for P0's second request, to P0
\* only.
C30_Witness ==
    /\ party[0].pc = "done"
    /\ party[1].pc = "done"
    /\ \E n \in 1 .. Len(party[0].got) : party[0].got[n].dim # party[1].got[n].dim
    /\ \E id1, id2 \in 1 .. Len(bundles) :
          /\ id1 < id2
          /\ bundles[id1].dim = bundles[id2].dim
          /\ Delivered(0, id1) /\ Delivered(1, id1)
          /\ Delivered(0, id2) /\ ~bundles[id2].served_p1

(***************************************************************************)
(* secure_dot_product called with vectors of any two lengths, in A3        *)
(* (common.hpp) and in A1 (pB.cpp), against the running dealer.            *)
(***************************************************************************)
MismatchInit ==
    /\ \E variant \in {"A3", "A1"}, la \in [Party -> 1 .. MaxDim],
          lb \in [Party -> 1 .. MaxDim] :
          /\ dpf = [pc |-> "caller", variant |-> variant]
          /\ party = [p \in Party |->
                StartDot(IdleParty, "single", SampleVec(la[p], 1 + p),
                         SampleVec(lb[p], 3 - p))]
          /\ handler = [p \in Party |->
                [IdleHandler EXCEPT !.pc = IF variant = "A3" THEN "read"
                                           ELSE "a1_read"]]
    /\ pending_by_dim = [d \in 1 .. MaxDim |-> <<>>]
    /\ bundles = <<>>
    /\ rng = [seed |-> 0, pos |-> 0]
    /\ peerChan = EmptyChans
    /\ toP2 = EmptyChans
    /\ fromP2 = EmptyChans
    /\ exit = NoExit
    /\ NoData

MismatchNext ==
    \E p \in Party :
        \/ /\ dpf.variant = "A3"
           /\ \/ SdpRequest(p) \/ SdpRecvPrep(p) \/ SdpSend(p) \/ SdpRecv(p)
              \/ HandleRequest(p) \/ HandleSend(p) \/ HandlePop(p)
        \/ /\ dpf.variant = "A1"
           /\ \/ A1SdpRequest(p) \/ A1SdpRecvPrep(p) \/ A1SdpSend(p) \/ A1SdpRecv(p)
              \/ A1HandleRequest(p) \/ A1HandleSend(p) \/ A1HandlePop(p)

SpecMismatch == MismatchInit /\ [][MismatchNext]_vars

\* Party p called secure_dot_product with vectors of different lengths.
Mismatched(p) == Len(party[p].a) # Len(party[p].b)

\* C25: dimension mismatch.  When a_share and b_share have different
\* lengths, secure_dot_product raises an error before any message is sent to
\* P2 or to the peer, so no bundle is requested or created and no channel
\* content changes.
C25_DimensionMismatch ==
    /\ [](\A p \in Party :
            Mismatched(p) =>
                /\ party[p].pc \in {"sdp_req", "failed"}
                /\ toP2[p] = <<>>
                /\ fromP2[p] = <<>>
                /\ peerChan[Other(p)] = <<>>
                /\ handler[p].log = <<>>
                /\ \A id \in 1 .. Len(bundles) : ~ServedFlag(bundles[id], p))
    /\ [][\A p \in Party :
            (Mismatched(p) /\ party'[p] # party[p]) =>
                /\ party'[p].pc = "failed"
                /\ UNCHANGED <<chanVars, dealerVars>>
       ]_vars

\* A3: P0 failed on its mismatch while P1, whose vectors match, got its
\* bundle and waits for P0's masked vectors.
C25_Witness ==
    /\ dpf.variant = "A3"
    /\ party[0].pc = "failed"
    /\ Mismatched(0)
    /\ party[1].pc = "sdp_recv"
    /\ Len(bundles) = 1
    /\ peerChan[0] # <<>>

\* The same situation in A1.
C25_WitnessA1 ==
    /\ dpf.variant = "A1"
    /\ party[0].pc = "failed"
    /\ Mismatched(0)
    /\ party[1].pc = "a1_recv"
    /\ Len(bundles) = 1
    /\ peerChan[0] # <<>>

(***************************************************************************)
(* The bundle requests of a run, A3/server.cpp:127-145.                    *)
(***************************************************************************)
\* The A3 system on one query list of each length (the lists of FaultLists),
\* all files loadable.
RunInit == SystemInit(FaultLists, {0}, {0}, {[p \in Party |-> TRUE]})

SpecRun == RunInit /\ [][Next]_vars

\* The dimensions party p has requested so far, in order: the requests the
\* dealer has taken up, then those still on the socket.
RequestedDims(p) ==
    [i \in 1 .. Len(handler[p].log) |-> bundles[handler[p].log[i]].dim] \o toP2[p]

\* The dimension of request number i of a run: each query asks for n, 1, 1
\* and then n times 1, n = num_items.
QueryDims(i) == IF (i - 1) % (config.num_items + 3) = 0 THEN config.num_items ELSE 1

\* The dealer's handler for p has written its whole response.
ResponseWritten(p) ==
    handler[p].pc = "send" => handler[p].idx = 1 + 2 * handler[p].dim

\* C26: sequential issue.  At every moment a compute party has at most one
\* bundle request outstanding at P2, and it never sends the bundle request
\* of its next dot product before it has received the peer's masked vectors
\* of the current one; within a query the requested dimensions are, in
\* order, n, 1, 1 and then n times 1, identical at P0 and P1.
C26_SequentialIssue ==
    /\ [](\A p \in Party :
            /\ \A i \in 1 .. Len(RequestedDims(p)) : RequestedDims(p)[i] = QueryDims(i)
            /\ Len(toP2[p]) <= 1
            \* an unanswered request: the party waits for its response
            /\ (toP2[p] # <<>> \/ fromP2[p] # <<>> \/ ~ResponseWritten(p))
                  => party[p].pc = "sdp_prep"
            \* and nothing of an earlier response is left
            /\ toP2[p] # <<>> => (fromP2[p] = <<>> /\ ResponseWritten(p)))
    /\ [][\A p \in Party :
            \* a request is sent with no other request open
            /\ Len(toP2'[p]) > Len(toP2[p]) =>
                  /\ party[p].pc = "sdp_req"
                  /\ toP2[p] = <<>> /\ fromP2[p] = <<>> /\ ResponseWritten(p)
            \* the next dot product is entered on the last masked element of
            \* the current one (or from the conversion, for the first one)
            /\ (party'[p].pc = "sdp_req" /\ party[p].pc # "sdp_req") =>
                  \/ /\ party[p].pc = "sdp_recv"
                     /\ Len(party[p].pin) + 1 = 2 * Len(party[p].a)
                     /\ peerChan[p] # <<>>
                  \/ party[p].pc \in {"conv_send", "conv_recv"}
            /\ (party[p].pc = "sdp_recv" /\ party'[p].pc # "sdp_recv") =>
                  Len(party[p].pin) + 1 = 2 * Len(party[p].a)
       ]_vars

\* Both parties are in their second query; P0 has sent the first request of
\* it while the peer's masked vectors of P1's next product are already
\* waiting on P0's peer socket.
C26_Witness ==
    /\ party[0].q = 1
    /\ party[1].q = 1
    /\ Len(RequestedDims(0)) = config.num_items + 4
    /\ Len(RequestedDims(1)) = config.num_items + 4
    /\ toP2[0] # <<>>
    /\ party[1].pc = "sdp_recv"

(***************************************************************************)
(* The peer exchange of secure_dot_product, A3/common.hpp:174-186.         *)
(***************************************************************************)
\* The field elements party p has written to the peer socket so far: those
\* still in flight and those the peer has read.
SentToPeer(p) == party[Other(p)].pin \o peerChan[Other(p)]

\* masked_a followed by masked_b of party p.
OwnMasked(p) == MaskedOut(party[p].a, party[p].b, party[p].X, party[p].Y)

\* C27: symmetric peer exchange.  In every dot product each party writes its
\* complete masked a vector and then its complete masked b vector (2k field
\* elements) to the peer before it reads anything from the peer, and then
\* reads exactly 2k elements in the same order, so each party's
\* peer_masked_a and peer_masked_b are the other party's masked_a and
\* masked_b.
C27_SymmetricExchange ==
    \A p \in Party :
        LET k == Len(party[p].a)
            pin == party[p].pin
        IN  \* nothing is read before the 2k own elements are written
            /\ pin # <<>> => SentToPeer(p) = OwnMasked(p)
            \* what is written is a prefix of masked_a \o masked_b
            /\ party[p].pc \in {"sdp_send", "sdp_recv", "done"} =>
                  /\ Len(SentToPeer(p)) <= 2 * k
                  /\ SentToPeer(p) = SubSeq(OwnMasked(p), 1, Len(SentToPeer(p)))
            \* exactly 2k elements are read, in the order written
            /\ Len(pin) <= 2 * k
            /\ party[p].pc = "done" =>
                  /\ Len(pin) = 2 * k
                  /\ peerChan[p] = <<>>
                  /\ SubSeq(pin, 1, k) =
                        [i \in 1 .. k |-> FieldAdd(party[Other(p)].a[i],
                                                   party[Other(p)].X[i])]
                  /\ SubSeq(pin, k + 1, 2 * k) =
                        [i \in 1 .. k |-> FieldAdd(party[Other(p)].b[i],
                                                   party[Other(p)].Y[i])]

\* Both parties returned from a product of the largest dimension in which
\* the masked a and b vectors of each party differ.
C27_Witness ==
    /\ party[0].pc = "done"
    /\ party[1].pc = "done"
    /\ Len(party[0].a) = MaxDim
    /\ SubSeq(party[0].pin, 1, MaxDim) # SubSeq(party[0].pin, MaxDim + 1, 2 * MaxDim)
    /\ SubSeq(party[1].pin, 1, MaxDim) # SubSeq(party[1].pin, MaxDim + 1, 2 * MaxDim)
    /\ party[0].pin # party[1].pin

(***************************************************************************)
(* Complete runs of both systems: A3 (server.cpp, with the dealer) and A1  *)
(* (pB.cpp, every bundle request answered by the two views of one bundle). *)
(* The A1 ProgramConfig has the fields m, n, k.                            *)
(***************************************************************************)
IsA1 == "k" \in DOMAIN config

FrameInit == RunInit \/ A1SyncInit

FrameNext ==
    \/ ~IsA1 /\ Next
    \/ IsA1 /\ A1SyncNext

SpecFrame == FrameInit /\ [][FrameNext]_vars

\* Party p is past the loading of its share files.
Loaded(p) == party[p].pc \notin {"start", "a1_start"}

\* C28: share mutation frame.  During query processing a party's shares
\* change only in the update step of a query; in A3 no entry of U is ever
\* modified and V is modified only in the per-item update loop, and in A1 no
\* entry of V is ever modified and only row user_id of U is modified per
\* query.
C28_ShareMutationFrame ==
    [][\A p \in Party :
          Loaded(p) =>
             IF ~IsA1
             THEN /\ U'[p] = U[p]
                  /\ V'[p] # V[p] =>
                        \* V[i] += update_share after the i-th multiplication
                        /\ party[p].pc = "sdp_recv"
                        /\ party[p].phase = "upd"
                        /\ Len(party[p].pin) + 1 = 2 * Len(party[p].a)
                        /\ \A i \in 1 .. Len(V[p]) :
                              i # party[p].i + 1 => V'[p][i] = V[p][i]
             ELSE /\ V'[p] = V[p]
                  /\ U'[p] # U[p] =>
                        \* U_share[user_id] = updated_ui after the last product
                        /\ party[p].pc = "a1_recv"
                        /\ party[p].phase = "mult"
                        /\ Len(party[p].temp) + 1 = config.k
                        /\ party'[p].q = party[p].q + 1
                        /\ \A r \in 1 .. Len(U[p]) :
                              r # party[p].user_idx + 1 => U'[p][r] = U[p][r]
      ]_vars

\* A3: a party in the update loop of its second query whose V differs from
\* the loaded one in every entry.
C28_Witness ==
    /\ ~IsA1
    /\ \E p \in Party :
          /\ party[p].phase = "upd"
          /\ party[p].q = 1
          /\ U[p] = files[p].U
          /\ \A i \in 1 .. Len(V[p]) : V[p][i] # files[p].V[i]

\* A1: a party saved a U whose last row differs from the loaded one while
\* the first row and V are as loaded.
C28_WitnessA1 ==
    /\ IsA1
    /\ \E p \in Party :
          /\ saved[p].written
          /\ V[p] = files[p].V
          /\ U[p][1] = files[p].U[1]
          /\ U[p][Len(U[p])] # files[p].U[Len(U[p])]

(***************************************************************************)
(* The pop of the A1 dealer, A1/p2.cpp:77-79 and 102-104.                  *)
(***************************************************************************)
\* handle_client for p has completed its last write for a bundle with both
\* flags set: its next statement is q.pop_front().
A1AboutToPop(p) ==
    /\ handler[p].pc = "a1_send"
    /\ handler[p].idx = 1 + 2 * handler[p].dim
    /\ bundles[handler[p].bundle].served_p0
    /\ bundles[handler[p].bundle].served_p1

\* C29: A1 dealer pop.  Under every interleaving of the two A1 handle_client
\* coroutines at their write suspension points, whenever a handler executes
\* q.pop_front() after sending, the queue is non-empty and its front is the
\* bundle that handler has just served, so no bundle that is still waiting
\* for the other party is ever removed.
C29_A1PopOwnFront ==
    \A p \in Party :
        A1AboutToPop(p) =>
            /\ pending_by_dim[handler[p].dim] # <<>>
            /\ Head(pending_by_dim[handler[p].dim]) = handler[p].bundle

\* A handler is about to execute q.pop_front() on an empty queue.
C29_PopOnEmpty ==
    \E p \in Party :
        /\ A1AboutToPop(p)
        /\ pending_by_dim[handler[p].dim] = <<>>


\* A handler is about to pop a front bundle it did not serve, which has been
\* sent to one party only and still waits for the other one.
C29_WaitingBundleRemoved ==
    \E p \in Party :
        /\ A1AboutToPop(p)
        /\ pending_by_dim[handler[p].dim] # <<>>
        /\ LET front == Head(pending_by_dim[handler[p].dim])
           IN  /\ front # handler[p].bundle
               /\ bundles[front].served_p0 # bundles[front].served_p1

(***************************************************************************)
(* The level loops of generate and eval, one iteration per step            *)
(* (A3/dpf.hpp generate 175-209, eval 236-250).  dpf.st holds generate's   *)
(* cur0, tau0, cur1, tau1 and the correction words so far; dpf.e0 and      *)
(* dpf.e1 hold the (s, t) of the two parties' eval of the same index.      *)
(***************************************************************************)
PathInit ==
    /\ \E id \in 0 .. (NumPrg - 1), size \in DpfSizes, s0 \in Word32, s1 \in Word32 :
         \E location \in 0 .. (size - 1) :
            dpf = [pc |-> "gen", id |-> id, size |-> size, location |-> location,
                   value |-> Carrier - 1, s0 |-> s0, s1 |-> s1,
                   depth |-> ilog2_size(size), level |-> 0,
                   st |-> [cur0 |-> s0, tau0 |-> s0 % 2,
                           cur1 |-> s1, tau1 |-> BitXor(s0 % 2, 1),
                           cw_seed |-> <<>>, cw_tL |-> <<>>, cw_tR |-> <<>>],
                   keys |-> NoKeys, index |-> 0,
                   e0 |-> [s |-> 0, t |-> 0], e1 |-> [s |-> 0, t |-> 0]]
    /\ exit = NoExit
    /\ NoParties
    /\ NoData
    /\ NoDealer

\* One iteration of generate's level loop.
PathGenStep ==
    /\ dpf.pc = "gen"
    /\ dpf.level < dpf.depth
    /\ dpf' = [dpf EXCEPT
                 !.st = GenLevel(dpf.id, dpf.st, dpf.location, dpf.depth, dpf.level),
                 !.level = @ + 1]
    /\ UNCHANGED <<exit, party, chanVars, dataVars, dealerVars>>

\* The loop is over: cw_out and the two keys.
PathGenReturn ==
    /\ dpf.pc = "gen"
    /\ dpf.level = dpf.depth
    /\ LET cw_out == BitXor(BitXor(dpf.value, prg_leaf(dpf.id, dpf.st.cur0)),
                            prg_leaf(dpf.id, dpf.st.cur1))
       IN  dpf' = [dpf EXCEPT
                     !.keys = [k0 |-> MakeKey(dpf.s0, dpf.s0 % 2, dpf.st, cw_out,
                                              dpf.size, dpf.depth),
                               k1 |-> MakeKey(dpf.s1, BitXor(dpf.s0 % 2, 1), dpf.st,
                                              cw_out, dpf.size, dpf.depth)],
                     !.pc = "keys"]
    /\ UNCHANGED <<exit, party, chanVars, dataVars, dealerVars>>

\* Both parties enter eval with the same index.
PathEvalBegin ==
    /\ dpf.pc = "keys"
    /\ \E index \in 0 .. (dpf.size - 1) :
         dpf' = [dpf EXCEPT
                   !.index = index, !.level = 0, !.pc = "eval",
                   !.e0 = [s |-> dpf.keys.k0.rootSeed, t |-> dpf.keys.k0.rootT],
                   !.e1 = [s |-> dpf.keys.k1.rootSeed, t |-> dpf.keys.k1.rootT]]
    /\ UNCHANGED <<exit, party, chanVars, dataVars, dealerVars>>

\* One iteration of eval's level loop at both parties.
PathEvalStep ==
    /\ dpf.pc = "eval"
    /\ dpf.level < dpf.depth
    /\ dpf' = [dpf EXCEPT
                 !.e0 = EvalLevel(dpf.id, dpf.keys.k0, dpf.index, dpf.e0, dpf.level),
                 !.e1 = EvalLevel(dpf.id, dpf.keys.k1, dpf.index, dpf.e1, dpf.level),
                 !.level = @ + 1]
    /\ UNCHANGED <<exit, party, chanVars, dataVars, dealerVars>>

PathEvalReturn ==
    /\ dpf.pc = "eval"
    /\ dpf.level = dpf.depth
    /\ dpf' = [dpf EXCEPT !.pc = "done"]
    /\ UNCHANGED <<exit, party, chanVars, dataVars, dealerVars>>

PathNext ==
    \/ PathGenStep
    \/ PathGenReturn
    \/ PathEvalBegin
    \/ PathEvalStep
    \/ PathEvalReturn

SpecDpfPath == PathInit /\ [][PathNext]_vars

\* The first `level` bits of an index of a tree of the given depth.
Prefix(index, depth, level) == index \div Pow2(depth - level)

\* The index is still on the path of location after dpf.level levels.
OnPath == Prefix(dpf.index, dpf.depth, dpf.level)
              = Prefix(dpf.location, dpf.depth, dpf.level)

(***************************************************************************)
(* C31: at every level of generate the two control bits differ; at every   *)
(* level of the two parties' eval of one index the control bits differ     *)
(* while the index prefix is that of location, and from the level at which  *)
(* the index leaves the path on the two parties hold equal seeds and equal *)
(* bits.                                                                   *)
(***************************************************************************)
C31_PathInvariant ==
    /\ dpf.pc = "gen" => BitXor(dpf.st.tau0, dpf.st.tau1) = 1
    /\ dpf.pc \in {"eval", "done"} =>
         IF OnPath
         THEN BitXor(dpf.e0.t, dpf.e1.t) = 1
         ELSE dpf.e0.s = dpf.e1.s /\ dpf.e0.t = dpf.e1.t

\* Off the path for two levels: the index left the path at the first level
\* of a tree of the largest depth and the evaluation reached the leaf.
C31_Witness ==
    /\ dpf.pc = "eval"
    /\ dpf.depth = MaxDepth
    /\ dpf.level = dpf.depth
    /\ get_bit(dpf.index, dpf.depth, 0) # get_bit(dpf.location, dpf.depth, 0)
    /\ dpf.e0.s = dpf.e1.s
    /\ dpf.keys.k0.rootSeed # dpf.keys.k1.rootSeed

\* On the path down to the leaf, with different seeds at the two parties.
C31_WitnessOnPath ==
    /\ dpf.pc = "eval"
    /\ dpf.depth = MaxDepth
    /\ dpf.level = dpf.depth
    /\ dpf.index = dpf.location
    /\ dpf.e0.s # dpf.e1.s
    /\ dpf.e0.t = 0

\* The seeds the level loops hold at the current step.
HeldSeeds ==
    IF dpf.pc = "gen" THEN {dpf.st.cur0, dpf.st.cur1}
    ELSE IF dpf.pc \in {"eval", "done"} THEN {dpf.e0.s, dpf.e1.s}
    ELSE {}

\* The correction seeds written so far.
CorrectionSeeds ==
    {dpf.st.cw_seed[l] : l \in 1 .. Len(dpf.st.cw_seed)}

(***************************************************************************)
(* C39: prg_expand gives the same result whatever the two low bits of its  *)
(* input seed are, and both child seeds it returns have them cleared;      *)
(* every correction seed, and every seed generate or eval holds below the  *)
(* root (a child with or without a correction seed XORed in), has the two  *)
(* low bits 0.                                                             *)
(***************************************************************************)
C39_ControlBitHygiene ==
    /\ \A s \in HeldSeeds :
         /\ \A low \in 0 .. 3 :
              prg_expand(dpf.id, (s - (s % 4)) + low) = prg_expand(dpf.id, s)
         /\ prg_expand(dpf.id, s).sL % 4 = 0
         /\ prg_expand(dpf.id, s).sR % 4 = 0
    /\ \A c \in CorrectionSeeds : c % 4 = 0
    /\ dpf.level >= 1 => \A s \in HeldSeeds : s % 4 = 0

\* Root seeds with both low bits set, a non-zero correction seed at the last
\* level, XORed in by the party whose control bit is 0, and the evaluation on
\* the path at the leaf of a tree of the largest depth.
C39_Witness ==
    /\ dpf.pc = "eval"
    /\ dpf.depth = MaxDepth
    /\ dpf.level = dpf.depth
    /\ dpf.index = dpf.location
    /\ dpf.s0 % 4 = 3
    /\ dpf.s1 % 4 = 3
    /\ dpf.keys.k0.cw_seed[dpf.depth] # 0
    /\ dpf.e0.s # dpf.e1.s

(***************************************************************************)
(* The DPF engine of A2/gen_queries.cpp.  seed256_xor, make_nonce,         *)
(* aes_ctr_words, isPowerOfTwo, ilog2_size, get_bit_msb and _clear_lsbs    *)
(* are the code of A3's seed_xor, make_nonce, aes_ctr_words,               *)
(* is_power_of_two, ilog2_size, get_bit and clear_lsbs.                    *)
(***************************************************************************)
prg_expand_full(id, seed) ==
    LET wL == aes_ctr_word(id, seed, make_nonce(seed, DOMAIN_SL), 0)
        wR == aes_ctr_word(id, seed, make_nonce(seed, DOMAIN_SR), 0)
        wT0 == aes_ctr_word(id, seed, make_nonce(seed, DOMAIN_T), 0)
        wT1 == aes_ctr_word(id, seed, make_nonce(seed, DOMAIN_T), 1)
    IN  [sL |-> wL, tL |-> wT0 % 2, sR |-> wR, tR |-> wT1 % 2]

prg_leaf_output(id, seed) ==
    LET w0 == aes_ctr_word(id, seed, make_nonce(seed, DOMAIN_OUT), 0)
        w1 == aes_ctr_word(id, seed, make_nonce(seed, DOMAIN_OUT), 1)
    IN  w0 + w1 * MODULUS

\* Mutation of prg_expand_: the returned children keep their low bits.
PrgExpandChildrenUncleared(id, seedIn) == prg_expand_full(id, clear_lsbs(seedIn))

prg_expand_(id, seedIn) ==
    LET e == prg_expand_full(id, clear_lsbs(seedIn))
    IN  [sL |-> clear_lsbs(e.sL), tL |-> e.tL, sR |-> clear_lsbs(e.sR), tR |-> e.tR]

\* One iteration of generateDPF_'s level loop: st holds s0, t0, s1, t1 and the
\* correction words so far.
A2GenLevel(id, st, location, depth, level) ==
    LET e0 == prg_expand_(id, st.s0)
        e1 == prg_expand_(id, st.s1)
        bit == get_bit(location, depth, level)
        keep == IF bit = 0 THEN 0 ELSE 1
        lose == BitXor(1, keep)
        cwtL == BitXor(BitXor(BitXor(e0.tL, e1.tL), bit), 1)
        cwtR == BitXor(BitXor(e0.tR, e1.tR), bit)
        nextcw == IF lose = 0 THEN seed_xor(e0.sL, e1.sL) ELSE seed_xor(e0.sR, e1.sR)
        c0 == IF keep = 0 THEN e0.sL ELSE e0.sR
        tau0 == IF keep = 0 THEN e0.tL ELSE e0.tR
        child0 == clear_lsbs(IF st.t0 = 0 THEN seed_xor(c0, nextcw) ELSE c0)
        c1 == IF keep = 0 THEN e1.sL ELSE e1.sR
        tau1 == IF keep = 0 THEN e1.tL ELSE e1.tR
        child1 == clear_lsbs(IF st.t1 = 0 THEN seed_xor(c1, nextcw) ELSE c1)
        cwk == IF keep = 0 THEN cwtL ELSE cwtR
    IN  [s0 |-> child0,
         t0 |-> BitXor(tau0, BitAnd(st.t0, cwk)),
         s1 |-> child1,
         t1 |-> BitXor(tau1, BitAnd(st.t1, cwk)),
         cw_seed |-> Append(st.cw_seed, nextcw),
         cw_tL |-> Append(st.cw_tL, cwtL),
         cw_tR |-> Append(st.cw_tR, cwtR)]

RECURSIVE A2GenLoop(_, _, _, _, _)
A2GenLoop(id, st, location, depth, level) ==
    IF level < depth
    THEN A2GenLoop(id, A2GenLevel(id, st, location, depth, level), location, depth,
                   level + 1)
    ELSE st

\* The two throw statements at the top of generateDPF_, in their order.
generateDPF_checks(size, location) ==
    IF location >= size THEN "invalid_argument"
    ELSE IF ~is_power_of_two(size) THEN "invalid_argument"
    ELSE "none"

\* The fields generateDPF_ stores in k0 and k1.
A2MakeKey(rootSeed, rootT, st, cw_out, size, depth) ==
    [rootSeed |-> rootSeed, rootT |-> rootT, cw_seed |-> st.cw_seed,
     cw_tL |-> st.cw_tL, cw_tR |-> st.cw_tR, cw_out |-> cw_out,
     size |-> size, depth |-> depth]

\* generateDPF_(size, location, value, rng) once the checks passed; s0_root
\* and s1_root are the two seeds the rng yields.
generateDPF_(id, size, location, value, s0_root, s1_root) ==
    LET depth == ilog2_size(size)
        t0_root == s0_root % 2
        t1_root == BitXor(t0_root, 1)
        st == A2GenLoop(id,
                        [s0 |-> s0_root, t0 |-> t0_root, s1 |-> s1_root, t1 |-> t1_root,
                         cw_seed |-> <<>>, cw_tL |-> <<>>, cw_tR |-> <<>>],
                        location, depth, 0)
        cw_out == BitXor(BitXor(value, prg_leaf_output(id, st.s0)),
                         prg_leaf_output(id, st.s1))
    IN  [k0 |-> A2MakeKey(s0_root, t0_root, st, cw_out, size, depth),
         k1 |-> A2MakeKey(s1_root, t1_root, st, cw_out, size, depth),
         size |-> size, targetValue |-> value, location |-> location]

\* One iteration of evalDPF_'s level loop on the state [s, t].
A2EvalLevel(id, key, index, st, level) ==
    LET e == prg_expand_(id, st.s)
        b == get_bit(index, key.depth, level)
        c == IF b = 0 THEN e.sL ELSE e.sR
        tau == IF b = 0 THEN e.tL ELSE e.tR
        cwt == IF b = 0 THEN key.cw_tL[level + 1] ELSE key.cw_tR[level + 1]
        newt == BitXor(tau, BitAnd(st.t, cwt))
        child == IF st.t = 0 THEN seed_xor(c, key.cw_seed[level + 1]) ELSE c
    IN  [s |-> clear_lsbs(child), t |-> newt]

RECURSIVE A2EvalLoop(_, _, _, _, _)
A2EvalLoop(id, key, index, st, level) ==
    IF level < key.depth
    THEN A2EvalLoop(id, key, index, A2EvalLevel(id, key, index, st, level), level + 1)
    ELSE st

\* evalDPF_(key, index), defined for index < key.size.
evalDPF_(id, key, index) ==
    LET st == A2EvalLoop(id, key, index, [s |-> key.rootSeed, t |-> key.rootT], 0)
        y == prg_leaf_output(id, st.s)
    IN  IF st.t = 1 THEN BitXor(y, key.cw_out) ELSE y

(***************************************************************************)
(* The two engines side by side: generate and generateDPF_ on the same     *)
(* arguments and root seeds, then eval and evalDPF_ on the same key and    *)
(* index.  The key is one of the generated pair, as generated or with the  *)
(* low bits of one correction seed set (a DPFKey is a plain struct and     *)
(* deserialize_key_text stores whatever numbers the file holds).           *)
(***************************************************************************)
NoCall == [err |-> "not called", val |-> <<>>]

Returned(v) == [err |-> "none", val |-> v]

Threw(e) == [err |-> e, val |-> <<>>]

EngInit ==
    /\ \E id \in 0 .. (NumPrg - 1), size \in ArgSizes, s0 \in Word32,
          s1 \in ArgSeeds :
         \E location \in 0 .. (size + 1) :
            dpf = [pc |-> "generate", id |-> id, size |-> size,
                   location |-> location, value |-> Carrier - 2,
                   s0 |-> s0, s1 |-> s1, gen3 |-> NoCall, gen2 |-> NoCall,
                   key |-> <<>>, low |-> 0, index |-> 0,
                   out3 |-> NoCall, out2 |-> NoCall]
    /\ exit = NoExit
    /\ NoParties
    /\ NoData
    /\ NoDealer

\* A3: generate(size, location, value, rng).
EngGenerateA3 ==
    /\ dpf.pc = "generate"
    /\ LET e == generate_checks(dpf.size, dpf.location)
       IN  dpf' = [dpf EXCEPT
                     !.gen3 = IF e # "none" THEN Threw(e)
                              ELSE Returned(generate(dpf.id, dpf.size, dpf.location,
                                                     dpf.value, dpf.s0, dpf.s1)),
                     !.pc = "generateDPF_"]
    /\ UNCHANGED <<exit, party, chanVars, dataVars, dealerVars>>

\* A2: generateDPF_(size, location, value, rng) with the same rng output.
EngGenerateA2 ==
    /\ dpf.pc = "generateDPF_"
    /\ LET e == generateDPF_checks(dpf.size, dpf.location)
       IN  dpf' = [dpf EXCEPT
                     !.gen2 = IF e # "none" THEN Threw(e)
                              ELSE Returned(generateDPF_(dpf.id, dpf.size, dpf.location,
                                                         dpf.value, dpf.s0, dpf.s1)),
                     !.pc = "key"]
    /\ UNCHANGED <<exit, party, chanVars, dataVars, dealerVars>>

\* The key and index of the next evaluation.
EngPickKey ==
    /\ dpf.pc = "key"
    /\ dpf.gen3.err = "none"
    /\ \E k \in {dpf.gen3.val.k0, dpf.gen3.val.k1}, index \in 0 .. (dpf.size + 1),
          level \in 0 .. ilog2_size(dpf.size), low \in {0, 3} :
          /\ (level = 0) <=> (low = 0)
          /\ dpf' = [dpf EXCEPT
                       !.key = IF level = 0 THEN k
                               ELSE [k EXCEPT !.cw_seed[level] = BitXor(@, low)],
                       !.low = low, !.index = index, !.pc = "eval"]
    /\ UNCHANGED <<exit, party, chanVars, dataVars, dealerVars>>

\* A3: eval(key, index).
EngEvalA3 ==
    /\ dpf.pc = "eval"
    /\ LET e == eval_check(dpf.key, dpf.index)
       IN  dpf' = [dpf EXCEPT
                     !.out3 = IF e # "none" THEN Threw(e)
                              ELSE Returned(eval(dpf.id, dpf.key, dpf.index)),
                     !.pc = "evalDPF_"]
    /\ UNCHANGED <<exit, party, chanVars, dataVars, dealerVars>>

\* A2: evalDPF_(key, index), whose throw statement is that of eval.
EngEvalA2 ==
    /\ dpf.pc = "evalDPF_"
    /\ LET e == eval_check(dpf.key, dpf.index)
       IN  dpf' = [dpf EXCEPT
                     !.out2 = IF e # "none" THEN Threw(e)
                              ELSE Returned(evalDPF_(dpf.id, dpf.key, dpf.index)),
                     !.pc = "done"]
    /\ UNCHANGED <<exit, party, chanVars, dataVars, dealerVars>>

EngNext ==
    \/ EngGenerateA3
    \/ EngGenerateA2
    \/ EngPickKey
    \/ EngEvalA3
    \/ EngEvalA2

SpecEngines == EngInit /\ [][EngNext]_vars

\* The generation part of C40, common to both statements.
GeneratesAgree ==
    dpf.pc \in {"key", "eval", "evalDPF_", "done"} =>
        /\ dpf.gen3.err = dpf.gen2.err
        /\ dpf.gen3.err \in {"none", "invalid_argument"}
        /\ dpf.gen3.err = "invalid_argument"
             <=> (~is_power_of_two(dpf.size) \/ dpf.location >= dpf.size)
        /\ dpf.gen3.err = "none" =>
             /\ dpf.gen2.val.k0 = dpf.gen3.val.k0
             /\ dpf.gen2.val.k1 = dpf.gen3.val.k1

C40_WitnessOthers ==
    \/ dpf.pc = "key" /\ dpf.gen3.err = "invalid_argument" /\ dpf.size = 0
    \/ dpf.pc = "key" /\ dpf.gen2.err = "invalid_argument" /\ dpf.size = 3
         /\ dpf.location = 1

\* The engines disagree: a key altered at the last level, evaluated in range.
C40_WitnessDiffer ==
    /\ dpf.pc = "done"
    /\ dpf.low = 3
    /\ dpf.out3.err = "none"
    /\ dpf.out2.err = "none"
    /\ dpf.out3.val # dpf.out2.val

(***************************************************************************)
(* Runs of the A3 system on well-formed files: both parties' query files   *)
(* hold the same users and key pairs of the configured domain.  Two lists  *)
(* of each length 0..MaxQueries (starting at the first or at the last      *)
(* item), and both share data samples.                                     *)
(***************************************************************************)
RefineLists ==
    {[n \in 1 .. len |-> FaultSample(n + first)] :
        len \in 0 .. MaxQueries, first \in {0, 1}}

RefineInit == SystemInit(RefineLists, {0, 1}, {0}, {[p \in Party |-> TRUE]})

SpecRefine == RefineInit /\ [][Next]_vars

\* The plaintext of query number t of the files: the user row and the item.
QueryUser(t) ==
    LET i == files[0].queries[t].user_id % config.num_users
    IN  FieldAdd(files[0].U[i + 1], files[1].U[i + 1])

QueryItem(t) == QueryLocation(files[0].queries[t].key, files[1].queries[t].key)

\* The plaintext item vector after the first t queries of the files.
RECURSIVE PlainAfter(_)
PlainAfter(t) ==
    IF t = 0 THEN Reconstruct(files[0].V, files[1].V)
    ELSE PlainUpdate(PlainAfter(t - 1), QueryUser(t), QueryItem(t))

\* Both parties are in the same query and past the step named by one of the
\* phases (the phase is that of the dot product a party is in).
BothIn(phases) ==
    /\ party[0].q = party[1].q
    /\ party[0].phase \in phases
    /\ party[1].phase \in phases

Shared(field) == FieldAdd(party[0][field], party[1][field])

(***************************************************************************)
(* C32: intermediate values of a query.  Once both parties hold the result *)
(* of a step, the two shares add up to the plaintext value: vj_share to    *)
(* V[j], dot_share to u * V[j], delta_share (1 - dot_share at P0,          *)
(* 0 - dot_share at P1) to 1 - u * V[j], M_share to u * (1 - u * V[j]),    *)
(* and the update share added to V[i] to indicator[i] * M.                 *)
(***************************************************************************)
C32_IntermediateValues ==
    LET t == party[0].q + 1
        u == QueryUser(t)
        vj == PlainAfter(t - 1)[QueryItem(t) + 1]
        delta == FieldSub(1, FieldMul(u, vj))
    IN  /\ BothIn({"dot", "M", "upd"}) => Shared("vj") = vj
        /\ BothIn({"M", "upd"}) =>
             /\ Shared("dot") = FieldMul(u, vj)
             /\ party[0].delta = FieldSub(1, party[0].dot)
             /\ party[1].delta = FieldSub(0, party[1].dot)
             /\ Shared("delta") = delta
        /\ BothIn({"upd"}) =>
             /\ Shared("M") = FieldMul(u, delta)
             /\ \A i \in 1 .. config.num_items :
                  (i <= party[0].i /\ i <= party[1].i) =>
                     FieldSub(FieldAdd(V[0][i], V[1][i]), PlainAfter(t - 1)[i])
                        = FieldMul(FieldAdd(party[0].ind[i], party[1].ind[i]),
                                   Shared("M"))

\* In the second query, both parties past the update of the first item,
\* which is the selected one: none of the shared values is 0 and no share
\* is the plaintext value itself.
C32_Witness ==
    /\ BothIn({"upd"})
    /\ party[0].q = 1
    /\ party[0].i >= 1 /\ party[1].i >= 1
    /\ Shared("vj") # 0
    /\ Shared("dot") # 0
    /\ Shared("M") # 0
    /\ party[0].M # Shared("M") /\ party[1].M # Shared("M")
    /\ FieldAdd(V[0][1], V[1][1]) # PlainAfter(1)[1]
    /\ FieldAdd(party[0].ind[1], party[1].ind[1]) = 1

(***************************************************************************)
(* C33: multi-query refinement.  Whenever both parties have completed the  *)
(* same number q of queries and neither is inside the next one, V0 + V1 is *)
(* the plaintext vector after the first q queries of the files (V[j] <-    *)
(* V[j] + u * (1 - u * V[j]) in file order, u the row user_id mod          *)
(* num_users); a slot no query selected has its initial value; and the     *)
(* files written at the end reconstruct to the plaintext after all         *)
(* queries.                                                                *)
(***************************************************************************)
C33_MultiQueryRefinement ==
    /\ (/\ party[0].q = party[1].q
        /\ party[0].pc \in {"loop", "save", "done"}
        /\ party[1].pc \in {"loop", "save", "done"})
         => /\ Reconstruct(V[0], V[1]) = PlainAfter(party[0].q)
            /\ \A i \in 1 .. config.num_items :
                 (\A t \in 1 .. party[0].q : QueryItem(t) # i - 1)
                    => FieldAdd(V[0][i], V[1][i])
                          = FieldAdd(files[0].V[i], files[1].V[i])
    /\ (saved[0].written /\ saved[1].written)
         => Reconstruct(saved[0].shares, saved[1].shares)
               = PlainAfter(Len(files[0].queries))

\* Two queries on two items completed and saved: the result differs from
\* the vector after one query and from the initial one.
C33_Witness ==
    /\ saved[0].written /\ saved[1].written
    /\ Len(files[0].queries) = MaxQueries
    /\ QueryItem(1) # QueryItem(2)
    /\ Reconstruct(saved[0].shares, saved[1].shares) # PlainAfter(MaxQueries - 1)
    /\ PlainAfter(1) # PlainAfter(0)

\* One query completed: the slot it did not select reconstructs to its
\* initial value although both parties' shares of it changed.
C33_WitnessUnselected ==
    /\ party[0].q = 1 /\ party[1].q = 1
    /\ party[0].pc = "loop" /\ party[1].pc = "loop"
    /\ \E i \in 1 .. config.num_items :
         /\ QueryItem(1) # i - 1
         /\ V[0][i] # files[0].V[i]
         /\ V[1][i] # files[1].V[i]
         /\ FieldAdd(V[0][i], V[1][i]) = FieldAdd(files[0].V[i], files[1].V[i])

\* The bundles of a queue that exactly one party has been served.
HalfServed(queue) ==
    {k \in 1 .. Len(queue) :
        bundles[queue[k]].served_p0 # bundles[queue[k]].served_p1}

(***************************************************************************)
(* C36: bounded dealer backlog.  While P0 and P1 run the query loop        *)
(* against the dealer, for every dimension at most one bundle of the queue *)
(* has been served to exactly one party, and the queue never holds more    *)
(* than two bundles.                                                       *)
(***************************************************************************)
C36_BoundedBacklog ==
    \A d \in DOMAIN pending_by_dim :
        /\ Len(pending_by_dim[d]) <= 2
        /\ Cardinality(HalfServed(pending_by_dim[d])) <= 1

\* The bound is reached: a queue holds a bundle both parties were served,
\* not yet popped, followed by one that waits for the other party.
C36_Witness ==
    \E d \in DOMAIN pending_by_dim :
        /\ Len(pending_by_dim[d]) = 2
        /\ HalfServed(pending_by_dim[d]) = {2}
        /\ party[0].q = 1

\* Between queries: party p has completed party[p].q queries and has not
\* entered the next one.
BetweenQueries(p) == party[p].pc \in {"loop", "save", "done"}

(***************************************************************************)
(* C37: message balance.  Whenever both compute parties have finished the  *)
(* same query, and at the end of the run, the peer channel in each         *)
(* direction and the channels to and from the dealer are empty.  A party   *)
(* that finished a query has read whatever the dealer and the peer sent it *)
(* within that query and has nothing unread at the dealer.                 *)
(***************************************************************************)
C37_MessageBalance ==
    /\ (BetweenQueries(0) /\ BetweenQueries(1) /\ party[0].q = party[1].q)
         => \A p \in Party :
               peerChan[p] = <<>> /\ toP2[p] = <<>> /\ fromP2[p] = <<>>
    /\ \A p \in Party :
         BetweenQueries(p) =>
            /\ toP2[p] = <<>>
            /\ fromP2[p] = <<>>
            /\ handler[p].pc = "send" => handler[p].idx = 1 + 2 * handler[p].dim
            /\ party[Other(p)].q < party[p].q => peerChan[p] = <<>>

\* Both parties finished the last of MaxQueries queries, after num_items + 3
\* products each per query.
C37_Witness ==
    /\ party[0].pc = "done" /\ party[1].pc = "done"
    /\ party[0].q = MaxQueries /\ party[1].q = MaxQueries
    /\ Len(handler[0].log) = MaxQueries * (config.num_items + 3)
    /\ peerChan[0] = <<>> /\ peerChan[1] = <<>>

\* Both parties stand between the first and the second query.
C37_WitnessBetween ==
    /\ party[0].pc = "loop" /\ party[1].pc = "loop"
    /\ party[0].q = 1 /\ party[1].q = 1
    /\ Len(queries[0]) = MaxQueries

(***************************************************************************)
(* What the dealer receives from a compute party.                          *)
(***************************************************************************)
\* connect_to_p2: field_t role = is_p0 ? 0 : 1, written once connected.
ConnectRole(p) == IF p = 0 THEN 0 ELSE 1

\* run reached connect_to_p2: the files were loaded and hold a query.
Connected(p) == party[p].pc \notin {"start", "stopped"} /\ queries[p] # <<>>

\* Everything party p has written to its socket to P2 so far, in order.
SentToP2(p) ==
    (IF Connected(p) THEN <<ConnectRole(p)>> ELSE <<>>) \o RequestedDims(p)

\* A sequence fixed by the role, num_items and the number of queries alone:
\* the role, then per query n, 1, 1 and n times 1.
ExpectedView(r, n, q) ==
    IF q = 0 THEN <<>>
    ELSE <<r>> \o [i \in 1 .. q * (n + 3) |-> IF (i - 1) % (n + 3) = 0 THEN n ELSE 1]

(***************************************************************************)
(* C38: dealer view.  What a compute party sends to P2 is its role (0 or   *)
(* 1) followed by requested dimensions only, and the sequence is the same  *)
(* in all runs with the same num_items and query count, whatever U, V, the *)
(* user ids and the DPF keys are: at every moment it is a prefix of, and   *)
(* at the end of the run it is, a sequence fixed by role, num_items and    *)
(* query count.                                                            *)
(***************************************************************************)
C38_DealerView ==
    \A p \in Party :
        LET view == SentToP2(p)
            full == ExpectedView(p, config.num_items, Len(files[p].queries))
        IN  /\ Len(view) <= Len(full)
            /\ view = SubSeq(full, 1, Len(view))
            /\ \A i \in 2 .. Len(view) : view[i] \in {1, config.num_items}
            /\ party[p].pc = "done" => view = full

\* A complete run of MaxQueries queries on the second share data sample and
\* the list that starts with the last item and a user id >= num_users.
C38_Witness ==
    /\ party[0].pc = "done" /\ party[1].pc = "done"
    /\ Len(queries[0]) = MaxQueries
    /\ files[0].U = ShareFiles(1, 0).U
    /\ files[0].queries[1].user_id >= config.num_users
    /\ Len(SentToP2(1)) = 1 + MaxQueries * (config.num_items + 3)
    /\ SentToP2(1)[1] = 1

\* A complete run of as many queries on the first share data sample and the
\* list that starts with the first item and user 0.
C38_WitnessOtherData ==
    /\ party[0].pc = "done" /\ party[1].pc = "done"
    /\ Len(queries[0]) = MaxQueries
    /\ files[0].U = ShareFiles(0, 0).U
    /\ files[0].queries[1].user_id = 0
    /\ files[0].queries[1].key # QueryEntry(0, FaultSample(2), 0).key
    /\ Len(SentToP2(1)) = 1 + MaxQueries * (config.num_items + 3)

(***************************************************************************)
(* Progress of a run.  The sockets are reliable FIFO channels with room    *)
(* for every write (the channel variables are unbounded queues), the files *)
(* are well-formed and hold q >= 1 queries, and each of the four           *)
(* coroutines (run at P0 and P1, handle_client for P0 and P1) is scheduled *)
(* whenever it stays ready: weak fairness of its steps.                    *)
(***************************************************************************)
PartyStep(p) ==
    \/ Start(p)
    \/ QueryStart(p)
    \/ ConvSend(p)
    \/ ConvRecv(p)
    \/ SdpRequest(p)
    \/ SdpRecvPrep(p)
    \/ SdpSend(p)
    \/ SdpRecv(p)
    \/ Save(p)

HandlerStep(p) == HandleRequest(p) \/ HandleSend(p) \/ HandlePop(p)

ProgressInit == RunInit /\ files[0].queries # <<>>

SpecProgress ==
    /\ ProgressInit
    /\ [][Next]_vars
    /\ \A p \in Party : WF_vars(PartyStep(p)) /\ WF_vars(HandlerStep(p))

\* Both compute parties processed every query and wrote their file.
Completed ==
    \A p \in Party :
        /\ party[p].pc = "done"
        /\ party[p].q = Len(files[p].queries)
        /\ saved[p].written

(***************************************************************************)
(* C34: progress.  With reliable FIFO channels, well-formed files of       *)
(* q >= 1 queries at both parties and fair scheduling of P0, P1 and the    *)
(* two dealer handlers, no state before completion is a deadlock, and both *)
(* compute parties eventually finish all q queries and save.               *)
(***************************************************************************)
C34_Progress ==
    /\ [](~Completed => ENABLED Next)
    /\ <>Completed

\* A run of MaxQueries queries is complete.
C34_Witness ==
    /\ Completed
    /\ Len(files[0].queries) = MaxQueries
    /\ saved[0].shares # files[0].V


(***************************************************************************)
(* The dealer under fair scheduling of its two handle_client coroutines.   *)
(* Nothing is assumed of the compute parties: they may stop at any point,  *)
(* also before their first request.                                        *)
(***************************************************************************)
SpecDealerFair ==
    /\ DealerAnyInit
    /\ [][DealerNext]_vars
    /\ \A p \in Party : WF_vars(HandlerStep(p))

\* The field elements of the response to party p's latest request that the
\* handler has written so far: those p has read, then those on the socket.
LatestResponse(p) ==
    LET pr == party[p]
    IN  IF Len(pr.got) = Len(handler[p].log)
        THEN LET rec == pr.got[Len(pr.got)] IN <<rec.corr>> \o rec.X \o rec.Y
        ELSE (IF pr.idx >= 1 THEN <<pr.corr>> ELSE <<>>) \o pr.X \o pr.Y \o fromP2[p]

\* handle_client for p took a request in this step.
ReadsRequest(p) == handler[p].pc = "read" /\ handler'[p].pc = "send"

\* The request at the head of p's socket can be paired with the head of the
\* queue of its dimension: that bundle went to the other party and not to p.
Pairable(p) ==
    LET queue == pending_by_dim[Head(toP2[p])]
    IN  /\ queue # <<>>
        /\ ServedFlag(bundles[Head(queue)], Other(p))
        /\ ~ServedFlag(bundles[Head(queue)], p)

\* The request p's handler takes was served from a bundle created for it.
ServedFresh(p) ==
    LET dim == Head(toP2[p])
        id == Len(bundles) + 1
    IN  /\ Len(bundles') = id
        /\ \A n \in 1 .. Len(bundles) : bundles'[n] = bundles[n]
        /\ bundles'[id].dim = dim
        /\ Len(bundles'[id].X0) = dim /\ Len(bundles'[id].Y1) = dim
        /\ ServedFlag(bundles'[id], p) /\ ~ServedFlag(bundles'[id], Other(p))
        /\ pending_by_dim' = [pending_by_dim EXCEPT ![dim] = Append(@, id)]
        /\ handler'[p].bundle = id

(***************************************************************************)
(* C35: dealer response without waiting.  Every bundle request a dealer    *)
(* handler reads is answered by that handler with a complete response      *)
(* (correction, X, Y: 1 + 2*dim field elements of the bundle it chose),    *)
(* and the handler never waits for the other party: while it answers, its  *)
(* next step is enabled whatever the other party and the other handler     *)
(* have done, so under fair scheduling of the handler alone the answer     *)
(* completes; a request that cannot be paired with the queue head is       *)
(* served from a freshly created bundle appended to the queue.             *)
(***************************************************************************)
C35_ResponseWithoutWaiting ==
    /\ [](\A p \in Party :
            /\ handler[p].pc = "send" => ENABLED HandlerStep(p)
            /\ (handler[p].pc = "read" /\ toP2[p] # <<>>) => ENABLED HandleRequest(p)
            /\ (handler[p].pc = "read" /\ handler[p].log # <<>>) =>
                  LET id == handler[p].log[Len(handler[p].log)]
                  IN  /\ LatestResponse(p) = ViewMsg(bundles[id], p)
                      /\ Len(LatestResponse(p)) = 1 + 2 * bundles[id].dim)
    /\ [][\A p \in Party :
            (ReadsRequest(p) /\ ~Pairable(p)) => ServedFresh(p)]_vars
    /\ \A p \in Party : (handler[p].pc = "send") ~> (handler[p].pc = "read")

\* P0's handler has answered a request of dimension MaxDim in full from a
\* fresh bundle while P1 has sent nothing and P1's handler has done nothing.
C35_Witness ==
    /\ handler[0].pc = "read"
    /\ Len(handler[0].log) = 1
    /\ bundles[handler[0].log[1]].dim = MaxDim
    /\ Len(fromP2[0]) = 1 + 2 * MaxDim
    /\ party[1].pc = "sdp_req"
    /\ toP2[1] = <<>>
    /\ handler[1].log = <<>>

\* P1's handler answers a request from a fresh bundle although the queue of
\* that dimension is not empty: its head was created for P1 itself.
C35_WitnessUnpaired ==
    /\ handler[1].pc = "read"
    /\ Len(handler[1].log) = 2
    /\ bundles[handler[1].log[1]].dim = bundles[handler[1].log[2]].dim
    /\ handler[0].log = <<>>
    /\ Len(pending_by_dim[bundles[handler[1].log[1]].dim]) = 2
=============================================================================
